---- MODULE Spec2Model ----
(***************************************************************************)
(* CipherExam: the encrypted-exam ledger (contracts/CipherExam.sol) and    *)
(* the client-side decryption-signature cache                              *)
(* (fhevm/FhevmDecryptionSignature.ts).                                    *)
(***************************************************************************)
EXTENDS Integers, Sequences, FiniteSets, TLC

(***************************************************************************)
(* Bounds of the model.                                                    *)
(***************************************************************************)
MaxExams == 2
MaxTime == 2
MaxQuestions == 2
MaxEvents == 4
MaxCalls == 2

(***************************************************************************)
(* Program constants.                                                      *)
(***************************************************************************)
MaxQuestionCount == 100
MaxQuestionScore == 100
DurationDays == 365
SecondsPerDay == 86400
\* euint32 cleartexts are kept as two 16-bit limbs <<hi, lo>>, so that the
\* 2^32 wrap-around of FHE.add is computed at its real width.
Limb == 65536

(***************************************************************************)
(* Principals and input sets.                                              *)
(***************************************************************************)
Ledger == "ledger"               \* address(this)
ZeroAddress == "0x0"
Principals == {"teacher", "alice", "bob"}
Creators == {"teacher"}
Students == {"teacher", "alice"}

\* block.timestamp at deployment: one capability lifetime after time 0
Genesis == DurationDays * SecondsPerDay
TimeInputs == Genesis..(Genesis + MaxTime)

\* createExam arguments (title, questionCount, questionScores): one valid shape per
\* question count, and one shape per way of violating a precondition
Shape(t, n, qs) == [title |-> t, questionCount |-> n, questionScores |-> qs]
ValidScores(n) == [i \in 1..n |-> IF i = n THEN MaxQuestionScore ELSE 1]
ValidShapes ==
    {Shape(IF n % 2 = 1 THEN "Midterm" ELSE "Final", n, ValidScores(n)) : n \in 1..MaxQuestions}
InvalidShapes ==
    {Shape("Midterm", 0, <<>>),
     Shape("Midterm", MaxQuestionCount + 1, ValidScores(MaxQuestions)),
     Shape("Final", MaxQuestions, ValidScores(MaxQuestions - 1)),
     Shape("Final", MaxQuestions, [ValidScores(MaxQuestions) EXCEPT ![1] = 0]),
     Shape("Final", MaxQuestions,
           [ValidScores(MaxQuestions) EXCEPT ![MaxQuestions] = MaxQuestionScore + 1])}
ExamShapes == ValidShapes \cup InvalidShapes

Zero32 == <<0, 0>>
One32 == <<0, 1>>
Max32 == <<Limb - 1, Limb - 1>>
U32(n) == <<n \div Limb, n % Limb>>
ThresholdValues == {U32(60)}
ScoreValues == {U32(30), Max32}
\* score lists of every length up to MaxQuestions: all 30s, or a first score of 2^32 - 1
ScoreInputs ==
    {[i \in 1..n |-> IF i = 1 THEN v ELSE U32(30)] : n \in 0..MaxQuestions, v \in ScoreValues}

(***************************************************************************)
(* The FHE primitive: ciphertext handles and their cleartexts.             *)
(* A handle is determined by the operation that produced it.               *)
(***************************************************************************)
NoHandle == [op |-> "none", typ |-> "", owner |-> "", val |-> Zero32, args |-> <<>>]

\* a ciphertext created off-chain by `owner` with an input proof for this ledger
externalEuint32(owner, v) ==
    [op |-> "input", typ |-> "euint32", owner |-> owner, val |-> v, args |-> <<>>]

asEuint32(v) == [op |-> "trivial", typ |-> "euint32", owner |-> "", val |-> v, args |-> <<>>]
asEbool(b) ==
    [op |-> "trivial", typ |-> "ebool", owner |-> "",
     val |-> IF b THEN One32 ELSE Zero32, args |-> <<>>]
add(a, b) == [op |-> "add", typ |-> "euint32", owner |-> "", val |-> Zero32, args |-> <<a, b>>]
ge(a, b) == [op |-> "ge", typ |-> "ebool", owner |-> "", val |-> Zero32, args |-> <<a, b>>]

\* FHE.fromExternal: the proof binds the input to the sender
fromExternalOk(h, sender) == h.op = "input" /\ h.owner = sender

\* mutant of Add32: the sum saturates at 2^32 - 1 instead of wrapping
Add32MutSat(a, b) ==
    LET lo == a[2] + b[2]
        hi == a[1] + b[1] + (lo \div Limb)
    IN  IF hi >= Limb THEN <<Limb - 1, Limb - 1>> ELSE <<hi, lo % Limb>>

Add32(a, b) ==
    LET lo == a[2] + b[2]
        hi == a[1] + b[1] + (lo \div Limb)
    IN  <<hi % Limb, lo % Limb>>
Ge32(a, b) == a[1] > b[1] \/ (a[1] = b[1] /\ a[2] >= b[2])

RECURSIVE Decrypt(_)
Decrypt(h) ==
    CASE h.op = "input" -> h.val
      [] h.op = "trivial" -> h.val
      [] h.op = "add" -> Add32(Decrypt(h.args[1]), Decrypt(h.args[2]))
      [] h.op = "ge" ->
            IF Ge32(Decrypt(h.args[1]), Decrypt(h.args[2])) THEN One32 ELSE Zero32
      [] OTHER -> Zero32
DecryptBool(h) == Decrypt(h) = One32

(***************************************************************************)
(* State.                                                                  *)
(***************************************************************************)
VARIABLES
    now,            \* block.timestamp
    nextExamId,
    exams,
    submissions,
    examStudents,
    hasSubmitted,
    acl,            \* persistent grants of the FHE access-control list: <<handle, principal>>
    events,         \* the event log
    calls,          \* the client's loadOrSign calls: arguments, position, result
    storage,        \* the client's GenericStringStorage: key -> stored string
    lastSetItem,    \* the latest storage.setItem: its caller, key and value
    keysGenerated,  \* how many key pairs instance.generateKeypair() has produced
    page,           \* the create-exam page's handleSubmit call: inputs, position, result
    localStorage    \* the browser's localStorage of exam questions: key -> stored string

ledgerVars == <<nextExamId, exams, submissions, examStudents, hasSubmitted, acl, events>>
pageVars == <<page, localStorage>>
clientVars == <<calls, storage, lastSetItem, keysGenerated, page, localStorage>>
vars == <<now, nextExamId, exams, submissions, examStudents, hasSubmitted, acl, events,
          calls, storage, lastSetItem, keysGenerated, page, localStorage>>

ExamIds == 0..MaxExams

NoExam ==
    [title |-> "", questionCount |-> 0, passingScore |-> NoHandle, questionScores |-> <<>>,
     startTime |-> 0, endTime |-> 0, isActive |-> FALSE, creator |-> ZeroAddress]
NoSubmission ==
    [scores |-> <<>>, totalScore |-> NoHandle, isPassed |-> NoHandle,
     submittedAt |-> 0, exists |-> FALSE]

(***************************************************************************)
(* Access grants.                                                          *)
(***************************************************************************)
GrantSet(h) == {p \in Principals \cup {Ledger} : <<h, p>> \in acl}

\* mutant of allow: granting a principal that is already present toggles the grant off
allowMut(a, h, p) == IF <<h, p>> \in a THEN a \ {<<h, p>>} ELSE a \cup {<<h, p>>}

\* mutant of allow: granting a principal that is already present drops the handle's
\* other grantees
allowMutReset(a, h, p) == IF <<h, p>> \in a THEN {x \in a : x[1] # h} \cup {<<h, p>>} ELSE a \cup {<<h, p>>}

\* FHE.allow(handle, account)
allow(a, h, p) == a \cup {<<h, p>>}
\* mutant of allowThis: the ledger is not granted
allowThisMut(a, h) == a

\* FHE.allowThis(handle)
allowThis(a, h) == allow(a, h, Ledger)

\* mutant of allowAll: only the first score handle is granted
allowAllMut(a, hs, p) ==
    IF hs = <<>> THEN a ELSE allowThis(allow(a, Head(hs), p), Head(hs))

RECURSIVE allowAll(_, _, _)
allowAll(a, hs, p) ==
    IF hs = <<>> THEN a
    ELSE allowAll(allowThis(allow(a, Head(hs), p), Head(hs)), Tail(hs), p)

\* a failed require reverts the whole transaction: no effect on the ledger
Revert == UNCHANGED ledgerVars

(***************************************************************************)
(* createExam                                                              *)
(***************************************************************************)
\* mutant of createExamRevert: the require on the time range is missing
createExamRevertMut(sender, questionCount, passingScore, questionScores, startTime, endTime) ==
    IF ~(questionCount > 0 /\ questionCount <= MaxQuestionCount) THEN "Invalid question count"
    ELSE IF Len(questionScores) # questionCount THEN "Question scores length mismatch"
    ELSE IF ~(startTime >= now) THEN "Start time must be in future"
    ELSE IF ~fromExternalOk(passingScore, sender) THEN "Invalid input proof"
    ELSE IF \E i \in 1..Len(questionScores) :
                ~(questionScores[i] > 0 /\ questionScores[i] <= MaxQuestionScore)
         THEN "Invalid question score"
    ELSE ""

\* mutant of createExamRevert: a question score of 0 is accepted
createExamRevertMutScore(sender, questionCount, passingScore, questionScores, startTime, endTime) ==
    IF ~(questionCount > 0 /\ questionCount <= MaxQuestionCount) THEN "Invalid question count"
    ELSE IF Len(questionScores) # questionCount THEN "Question scores length mismatch"
    ELSE IF ~(endTime > startTime) THEN "Invalid time range"
    ELSE IF ~(startTime >= now) THEN "Start time must be in future"
    ELSE IF ~fromExternalOk(passingScore, sender) THEN "Invalid input proof"
    ELSE IF \E i \in 1..Len(questionScores) : ~(questionScores[i] <= MaxQuestionScore)
         THEN "Invalid question score"
    ELSE ""

createExamRevert(sender, questionCount, passingScore, questionScores, startTime, endTime) ==
    IF ~(questionCount > 0 /\ questionCount <= MaxQuestionCount) THEN "Invalid question count"
    ELSE IF Len(questionScores) # questionCount THEN "Question scores length mismatch"
    ELSE IF ~(endTime > startTime) THEN "Invalid time range"
    ELSE IF ~(startTime >= now) THEN "Start time must be in future"
    ELSE IF ~fromExternalOk(passingScore, sender) THEN "Invalid input proof"
    ELSE IF \E i \in 1..Len(questionScores) :
                ~(questionScores[i] > 0 /\ questionScores[i] <= MaxQuestionScore)
         THEN "Invalid question score"
    ELSE ""

\* mutant of createExam: nextExamId is not incremented
createExamMutReuse(sender, title, questionCount, passingScore, questionScores, startTime, endTime) ==
    LET err == createExamRevert(sender, questionCount, passingScore, questionScores,
                                startTime, endTime)
        examId == nextExamId
    IN  /\ UNCHANGED now
        /\ IF err # "" THEN Revert
           ELSE /\ nextExamId < MaxExams
                /\ Len(events) < MaxEvents
                /\ nextExamId' = nextExamId
                /\ exams' = [exams EXCEPT ![examId] =
                        [title |-> title, questionCount |-> questionCount,
                         passingScore |-> passingScore, questionScores |-> questionScores,
                         startTime |-> startTime, endTime |-> endTime,
                         isActive |-> TRUE, creator |-> sender]]
                /\ acl' = allowThis(allow(acl, passingScore, sender), passingScore)
                /\ events' = Append(events,
                        <<"ExamCreated", examId, sender, title, questionCount, startTime, endTime>>)
                /\ UNCHANGED <<submissions, examStudents, hasSubmitted>>

\* mutant of createExam: the id is taken after the increment (++nextExamId)
createExamMut(sender, title, questionCount, passingScore, questionScores, startTime, endTime) ==
    LET err == createExamRevert(sender, questionCount, passingScore, questionScores,
                                startTime, endTime)
        examId == nextExamId + 1
    IN  /\ UNCHANGED now
        /\ IF err # "" THEN Revert
           ELSE /\ nextExamId < MaxExams
                /\ Len(events) < MaxEvents
                /\ nextExamId' = nextExamId + 1
                /\ exams' = [exams EXCEPT ![examId] =
                        [title |-> title, questionCount |-> questionCount,
                         passingScore |-> passingScore, questionScores |-> questionScores,
                         startTime |-> startTime, endTime |-> endTime,
                         isActive |-> TRUE, creator |-> sender]]
                /\ acl' = allowThis(allow(acl, passingScore, sender), passingScore)
                /\ events' = Append(events,
                        <<"ExamCreated", examId, sender, title, questionCount, startTime, endTime>>)
                /\ UNCHANGED <<submissions, examStudents, hasSubmitted>>

createExam(sender, title, questionCount, passingScore, questionScores, startTime, endTime) ==
    LET err == createExamRevert(sender, questionCount, passingScore, questionScores,
                                startTime, endTime)
        examId == nextExamId
    IN  /\ UNCHANGED now
        /\ IF err # "" THEN Revert
           ELSE /\ nextExamId < MaxExams
                /\ Len(events) < MaxEvents
                /\ nextExamId' = nextExamId + 1
                /\ exams' = [exams EXCEPT ![examId] =
                        [title |-> title, questionCount |-> questionCount,
                         passingScore |-> passingScore, questionScores |-> questionScores,
                         startTime |-> startTime, endTime |-> endTime,
                         isActive |-> TRUE, creator |-> sender]]
                /\ acl' = allowThis(allow(acl, passingScore, sender), passingScore)
                /\ events' = Append(events,
                        <<"ExamCreated", examId, sender, title, questionCount, startTime, endTime>>)
                /\ UNCHANGED <<submissions, examStudents, hasSubmitted>>

(***************************************************************************)
(* submitAnswers                                                           *)
(***************************************************************************)
\* mutant of onlyActiveExamRevert: the end instant is excluded
onlyActiveExamRevertMut(examId) ==
    IF ~exams[examId].isActive THEN "Exam does not exist"
    ELSE IF ~(now >= exams[examId].startTime /\ now < exams[examId].endTime)
         THEN "Exam is not in progress"
    ELSE ""

\* mutant of onlyActiveExamRevert: the start time is not checked
onlyActiveExamRevertMutStart(examId) ==
    IF ~exams[examId].isActive THEN "Exam does not exist"
    ELSE IF ~(now <= exams[examId].endTime) THEN "Exam is not in progress"
    ELSE ""

\* modifier onlyActiveExam
onlyActiveExamRevert(examId) ==
    IF ~exams[examId].isActive THEN "Exam does not exist"
    ELSE IF ~(now >= exams[examId].startTime /\ now <= exams[examId].endTime)
         THEN "Exam is not in progress"
    ELSE ""

\* mutant of submitAnswersRevert: the require on hasSubmitted is missing
submitAnswersRevertMut(sender, examId, scores) ==
    IF onlyActiveExamRevert(examId) # "" THEN onlyActiveExamRevert(examId)
    ELSE IF Len(scores) # exams[examId].questionCount THEN "Score count mismatch"
    ELSE IF \E i \in 1..Len(scores) : ~fromExternalOk(scores[i], sender)
         THEN "Invalid input proof"
    ELSE ""

\* mutant of submitAnswersRevert: a score above the question's max score is rejected
submitAnswersRevertMutMax(sender, examId, scores) ==
    IF onlyActiveExamRevert(examId) # "" THEN onlyActiveExamRevert(examId)
    ELSE IF hasSubmitted[examId][sender] THEN "Already submitted"
    ELSE IF Len(scores) # exams[examId].questionCount THEN "Score count mismatch"
    ELSE IF \E i \in 1..Len(scores) : ~fromExternalOk(scores[i], sender)
         THEN "Invalid input proof"
    ELSE IF \E i \in 1..Len(scores) :
                ~Ge32(U32(exams[examId].questionScores[i]), scores[i].val)
         THEN "Score exceeds max"
    ELSE ""

\* mutant of submitAnswersRevert: the require on the score count is missing
submitAnswersRevertMutCount(sender, examId, scores) ==
    IF onlyActiveExamRevert(examId) # "" THEN onlyActiveExamRevert(examId)
    ELSE IF hasSubmitted[examId][sender] THEN "Already submitted"
    ELSE IF \E i \in 1..Len(scores) : ~fromExternalOk(scores[i], sender)
         THEN "Invalid input proof"
    ELSE ""

\* mutant of submitAnswersRevert: the score count is only checked not to exceed questionCount
submitAnswersRevertMutFewer(sender, examId, scores) ==
    IF onlyActiveExamRevert(examId) # "" THEN onlyActiveExamRevert(examId)
    ELSE IF hasSubmitted[examId][sender] THEN "Already submitted"
    ELSE IF Len(scores) > exams[examId].questionCount THEN "Score count mismatch"
    ELSE IF \E i \in 1..Len(scores) : ~fromExternalOk(scores[i], sender)
         THEN "Invalid input proof"
    ELSE ""

submitAnswersRevert(sender, examId, scores) ==
    IF onlyActiveExamRevert(examId) # "" THEN onlyActiveExamRevert(examId)
    ELSE IF hasSubmitted[examId][sender] THEN "Already submitted"
    ELSE IF Len(scores) # exams[examId].questionCount THEN "Score count mismatch"
    ELSE IF \E i \in 1..Len(scores) : ~fromExternalOk(scores[i], sender)
         THEN "Invalid input proof"
    ELSE ""

\* mutant of submitAnswers: the emit is missing
submitAnswersMut(sender, examId, scores) ==
    LET err == submitAnswersRevert(sender, examId, scores)
        encryptedScores == scores
    IN  /\ UNCHANGED now
        /\ IF err # "" THEN Revert
           ELSE /\ Len(events) < MaxEvents
                /\ submissions' = [submissions EXCEPT ![examId][sender] =
                        [scores |-> encryptedScores,
                         totalScore |-> asEuint32(Zero32),
                         isPassed |-> asEbool(FALSE),
                         submittedAt |-> now,
                         exists |-> TRUE]]
                /\ acl' = allowAll(acl, encryptedScores, sender)
                /\ hasSubmitted' = [hasSubmitted EXCEPT ![examId][sender] = TRUE]
                /\ examStudents' = [examStudents EXCEPT ![examId] = Append(@, sender)]
                /\ UNCHANGED <<nextExamId, exams, events>>

\* mutant of submitAnswers: the student is put at the front of the roster
submitAnswersMutFront(sender, examId, scores) ==
    LET err == submitAnswersRevert(sender, examId, scores)
        encryptedScores == scores
    IN  /\ UNCHANGED now
        /\ IF err # "" THEN Revert
           ELSE /\ Len(events) < MaxEvents
                /\ submissions' = [submissions EXCEPT ![examId][sender] =
                        [scores |-> encryptedScores,
                         totalScore |-> asEuint32(Zero32),
                         isPassed |-> asEbool(FALSE),
                         submittedAt |-> now,
                         exists |-> TRUE]]
                /\ acl' = allowAll(acl, encryptedScores, sender)
                /\ hasSubmitted' = [hasSubmitted EXCEPT ![examId][sender] = TRUE]
                /\ examStudents' = [examStudents EXCEPT ![examId] = <<sender>> \o @]
                /\ events' = Append(events, <<"AnswersSubmitted", examId, sender, now>>)
                /\ UNCHANGED <<nextExamId, exams>>

\* mutant of submitAnswers: the initial total and passed handles are granted to the
\* student and to the ledger as well
submitAnswersMutGrant(sender, examId, scores) ==
    LET err == submitAnswersRevert(sender, examId, scores)
        encryptedScores == scores
    IN  /\ UNCHANGED now
        /\ IF err # "" THEN Revert
           ELSE /\ Len(events) < MaxEvents
                /\ submissions' = [submissions EXCEPT ![examId][sender] =
                        [scores |-> encryptedScores,
                         totalScore |-> asEuint32(Zero32),
                         isPassed |-> asEbool(FALSE),
                         submittedAt |-> now,
                         exists |-> TRUE]]
                /\ acl' = allowAll(acl, encryptedScores \o <<asEuint32(Zero32), asEbool(FALSE)>>,
                                   sender)
                /\ hasSubmitted' = [hasSubmitted EXCEPT ![examId][sender] = TRUE]
                /\ examStudents' = [examStudents EXCEPT ![examId] = Append(@, sender)]
                /\ events' = Append(events, <<"AnswersSubmitted", examId, sender, now>>)
                /\ UNCHANGED <<nextExamId, exams>>

submitAnswers(sender, examId, scores) ==
    LET err == submitAnswersRevert(sender, examId, scores)
        encryptedScores == scores
    IN  /\ UNCHANGED now
        /\ IF err # "" THEN Revert
           ELSE /\ Len(events) < MaxEvents
                /\ submissions' = [submissions EXCEPT ![examId][sender] =
                        [scores |-> encryptedScores,
                         totalScore |-> asEuint32(Zero32),
                         isPassed |-> asEbool(FALSE),
                         submittedAt |-> now,
                         exists |-> TRUE]]
                /\ acl' = allowAll(acl, encryptedScores, sender)
                /\ hasSubmitted' = [hasSubmitted EXCEPT ![examId][sender] = TRUE]
                /\ examStudents' = [examStudents EXCEPT ![examId] = Append(@, sender)]
                /\ events' = Append(events, <<"AnswersSubmitted", examId, sender, now>>)
                /\ UNCHANGED <<nextExamId, exams>>

(***************************************************************************)
(* computeTotalAndJudge                                                    *)
(***************************************************************************)
\* mutant of computeTotalAndJudgeRevert: the require on the caller is missing
computeTotalAndJudgeRevertMut(sender, examId, student) ==
    IF ~submissions[examId][student].exists THEN "No submission found" ELSE ""

\* mutant of computeTotalAndJudgeRevert: the computation is refused after the end time
computeTotalAndJudgeRevertMutEnded(sender, examId, student) ==
    IF ~submissions[examId][student].exists THEN "No submission found"
    ELSE IF ~(student = sender \/ exams[examId].creator = sender) THEN "Not authorized"
    ELSE IF now > exams[examId].endTime THEN "Exam has ended"
    ELSE ""

computeTotalAndJudgeRevert(sender, examId, student) ==
    IF ~submissions[examId][student].exists THEN "No submission found"
    ELSE IF ~(student = sender \/ exams[examId].creator = sender) THEN "Not authorized"
    ELSE ""

\* mutant of foldTotal: the loop stops after the first score
foldTotalMut(total, scores) ==
    IF scores = <<>> THEN total ELSE add(total, Head(scores))

\* mutant of foldTotal: the loop runs from the last score to the first
RECURSIVE foldTotalMutReverse(_, _)
foldTotalMutReverse(total, scores) ==
    IF scores = <<>> THEN total
    ELSE foldTotalMutReverse(add(total, scores[Len(scores)]),
                             SubSeq(scores, 1, Len(scores) - 1))

\* the fold of lines 186-189: total = FHE.add(total, scores[i]), left to right
RECURSIVE foldTotal(_, _)
foldTotal(total, scores) ==
    IF scores = <<>> THEN total
    ELSE foldTotal(add(total, Head(scores)), Tail(scores))

\* mutant of computeGrants: the caller is granted instead of the student
computeGrantsMut(a, total, passed, sender, student) ==
    allowThis(allow(allowThis(allow(a, total, sender), total), passed, sender), passed)

\* mutant of computeGrants: FHE.allowThis(passed) is missing
computeGrantsMutThis(a, total, passed, sender, student) ==
    allow(allowThis(allow(a, total, student), total), passed, student)

\* lines 193-194 and 201-202: the grants on the two new handles
computeGrants(a, total, passed, sender, student) ==
    allowThis(allow(allowThis(allow(a, total, student), total), passed, student), passed)

\* mutant of computeTotalAndJudge: the results are stored under the caller
computeTotalAndJudgeMutSender(sender, examId, student) ==
    LET err == computeTotalAndJudgeRevert(sender, examId, student)
        submission == submissions[examId][student]
        total == foldTotal(asEuint32(Zero32), submission.scores)
        passed == ge(total, exams[examId].passingScore)
    IN  /\ UNCHANGED now
        /\ IF err # "" THEN Revert
           ELSE /\ Len(events) < MaxEvents
                /\ submissions' = [submissions EXCEPT
                        ![examId][sender].totalScore = total,
                        ![examId][sender].isPassed = passed]
                /\ acl' = computeGrants(acl, total, passed, sender, student)
                /\ events' = Append(events, <<"TotalComputed", examId, student>>)
                /\ UNCHANGED <<nextExamId, exams, examStudents, hasSubmitted>>

\* mutant of computeTotalAndJudge: the fold starts from the stored total
computeTotalAndJudgeMut(sender, examId, student) ==
    LET err == computeTotalAndJudgeRevert(sender, examId, student)
        submission == submissions[examId][student]
        total == foldTotal(submission.totalScore, submission.scores)
        passed == ge(total, exams[examId].passingScore)
    IN  /\ UNCHANGED now
        /\ IF err # "" THEN Revert
           ELSE /\ Len(events) < MaxEvents
                /\ submissions' = [submissions EXCEPT
                        ![examId][student].totalScore = total,
                        ![examId][student].isPassed = passed]
                /\ acl' = computeGrants(acl, total, passed, sender, student)
                /\ events' = Append(events, <<"TotalComputed", examId, student>>)
                /\ UNCHANGED <<nextExamId, exams, examStudents, hasSubmitted>>

computeTotalAndJudge(sender, examId, student) ==
    LET err == computeTotalAndJudgeRevert(sender, examId, student)
        submission == submissions[examId][student]
        total == foldTotal(asEuint32(Zero32), submission.scores)
        passed == ge(total, exams[examId].passingScore)
    IN  /\ UNCHANGED now
        /\ IF err # "" THEN Revert
           ELSE /\ Len(events) < MaxEvents
                /\ submissions' = [submissions EXCEPT
                        ![examId][student].totalScore = total,
                        ![examId][student].isPassed = passed]
                /\ acl' = computeGrants(acl, total, passed, sender, student)
                /\ events' = Append(events, <<"TotalComputed", examId, student>>)
                /\ UNCHANGED <<nextExamId, exams, examStudents, hasSubmitted>>

(***************************************************************************)
(* Views                                                                   *)
(***************************************************************************)
\* mutant of getExamInfo: the per-question scores come back in reverse order
getExamInfoMut(examId) ==
    LET exam == exams[examId]
        n == Len(exam.questionScores)
    IN  IF ~exam.isActive
        THEN [err |-> "Exam does not exist", title |-> "", questionCount |-> 0,
              questionScores |-> <<>>, startTime |-> 0, endTime |-> 0,
              isActive |-> FALSE, creator |-> ZeroAddress]
        ELSE [err |-> "", title |-> exam.title, questionCount |-> exam.questionCount,
              questionScores |-> [i \in 1..n |-> exam.questionScores[n + 1 - i]],
              startTime |-> exam.startTime, endTime |-> exam.endTime,
              isActive |-> exam.isActive, creator |-> exam.creator]

getExamInfo(examId) ==
    LET exam == exams[examId]
    IN  IF ~exam.isActive
        THEN [err |-> "Exam does not exist", title |-> "", questionCount |-> 0,
              questionScores |-> <<>>, startTime |-> 0, endTime |-> 0,
              isActive |-> FALSE, creator |-> ZeroAddress]
        ELSE [err |-> "", title |-> exam.title, questionCount |-> exam.questionCount,
              questionScores |-> exam.questionScores, startTime |-> exam.startTime,
              endTime |-> exam.endTime, isActive |-> exam.isActive, creator |-> exam.creator]

\* mutant of getExamStatus: the end instant already counts as ended
getExamStatusMut(examId) ==
    LET exam == exams[examId]
    IN  IF ~exam.isActive THEN 0
        ELSE IF now < exam.startTime THEN 0
        ELSE IF now >= exam.endTime THEN 2
        ELSE 1

\* 0 = not started, 1 = in progress, 2 = ended
getExamStatus(examId) ==
    LET exam == exams[examId]
    IN  IF ~exam.isActive THEN 0
        ELSE IF now < exam.startTime THEN 0
        ELSE IF now > exam.endTime THEN 2
        ELSE 1

getMyEncryptedTotal(examId, student) ==
    IF ~submissions[examId][student].exists THEN [err |-> "No submission found", value |-> NoHandle]
    ELSE [err |-> "", value |-> submissions[examId][student].totalScore]

getMyPassedStatus(examId, student) ==
    IF ~submissions[examId][student].exists THEN [err |-> "No submission found", value |-> NoHandle]
    ELSE [err |-> "", value |-> submissions[examId][student].isPassed]

getMyScores(examId, student) ==
    IF ~submissions[examId][student].exists THEN [err |-> "No submission found", value |-> <<>>]
    ELSE [err |-> "", value |-> submissions[examId][student].scores]

getExamStudents(examId) == examStudents[examId]
getNextExamId == nextExamId

(***************************************************************************)
(* The reveal service (fhevmInstance.userDecrypt), as the results page     *)
(* calls it: a capability and a list of (handle, contractAddress) pairs.   *)
(***************************************************************************)
OtherContract == "other"
CapabilityInputs ==
    [userAddress : Principals, contractAddresses : {<<Ledger>>, <<OtherContract>>},
     startTimestamp : {0, Genesis}, durationDays : {DurationDays}]

SeqRange(q) == {q[i] : i \in 1..Len(q)}

Unexpired(cap) == now < cap.startTimestamp + cap.durationDays * SecondsPerDay

\* mutant of userDecryptOk: the grant set of the handle is not consulted
userDecryptOkMut(cap, pair) ==
    /\ pair.contractAddress \in SeqRange(cap.contractAddresses)
    /\ Unexpired(cap)

userDecryptOk(cap, pair) ==
    /\ <<pair.handle, cap.userAddress>> \in acl
    /\ pair.contractAddress \in SeqRange(cap.contractAddresses)
    /\ Unexpired(cap)

\* the cleartexts of all requested handles, or a denial of the whole request
userDecrypt(cap, pairs) ==
    IF \A i \in 1..Len(pairs) : userDecryptOk(cap, pairs[i])
    THEN [err |-> "", res |-> [i \in 1..Len(pairs) |-> Decrypt(pairs[i].handle)]]
    ELSE [err |-> "RevealDenied", res |-> <<>>]

\* the handles the results page asks for: total, passed, then every score
handleDecryptRequest(examId, account, contractAddress) ==
    LET sub == submissions[examId][account]
    IN  <<[handle |-> sub.totalScore, contractAddress |-> contractAddress],
          [handle |-> sub.isPassed, contractAddress |-> contractAddress]>>
        \o [i \in 1..Len(sub.scores) |->
                [handle |-> sub.scores[i], contractAddress |-> contractAddress]]

(***************************************************************************)
(* The client: FhevmDecryptionSignature over a GenericStringStorage.       *)
(***************************************************************************)
Calls == 1..MaxCalls
Undefined == ""

\* the optional keyPair argument of loadOrSign
NoKeyPair == [publicKey |-> Undefined, privateKey |-> Undefined]
KeyPairInputs == {NoKeyPair, [publicKey |-> "pk0", privateKey |-> "sk0"]}
\* instance.generateKeypair(): the n-th call yields the n-th fresh pair
generateKeypair(n) == [publicKey |-> "pk" \o ToString(n), privateKey |-> "sk" \o ToString(n)]

\* a signer is named by the address its getAddress() resolves to
Signers == {"alice", "bob"}
ContractAddressInputs == {<<Ledger>>, <<OtherContract, Ledger>>, <<Ledger, OtherContract>>}

isAddress(a) == a \in Principals

\* Array.prototype.sort() on address strings: "ledger" sorts before "other"
AddressRank(a) == IF a = Ledger THEN 0 ELSE 1
RECURSIVE insert(_, _)
insert(x, q) ==
    IF q = <<>> THEN <<x>>
    ELSE IF AddressRank(x) <= AddressRank(Head(q)) THEN <<x>> \o q
    ELSE <<Head(q)>> \o insert(x, Tail(q))
RECURSIVE sort(_)
sort(q) == IF q = <<>> THEN <<>> ELSE insert(Head(q), sort(Tail(q)))

\* instance.createEIP712: the typed message binds its four arguments
createEIP712(publicKey, contractAddresses, startTimestamp, durationDays) ==
    [publicKey |-> publicKey, contractAddresses |-> contractAddresses,
     startTimestamp |-> startTimestamp, durationDays |-> durationDays]
NoEIP712 == createEIP712(Undefined, <<>>, 0, 0)
\* mutant of TypedDataEncoderHash: the contract addresses do not enter the hash
TypedDataEncoderHashMut(eip712) ==
    <<eip712.publicKey, eip712.startTimestamp, eip712.durationDays>>

\* ethers.TypedDataEncoder.hash: injective on the message
TypedDataEncoderHash(eip712) ==
    <<eip712.publicKey, eip712.contractAddresses, eip712.startTimestamp, eip712.durationDays>>
\* signer.signTypedData, when the signer agrees
signTypedData(signer, eip712) == <<signer, TypedDataEncoderHash(eip712)>>

\* the constructor of FhevmDecryptionSignatureStorageKey; it sorts the caller's array
FhevmDecryptionSignatureStorageKey(contractAddresses, userAddress, publicKey) ==
    LET sortedContractAddresses == sort(contractAddresses)
        emptyEIP712 ==
            createEIP712(IF publicKey = Undefined THEN ZeroAddress ELSE publicKey,
                         sortedContractAddresses, 0, 0)
    IN  IF ~isAddress(userAddress)
        THEN [err |-> "TypeError", contractAddresses |-> contractAddresses, key |-> <<>>]
        ELSE [err |-> "", contractAddresses |-> sortedContractAddresses,
              key |-> <<userAddress, TypedDataEncoderHash(emptyEIP712)>>]

\* the null result
Null ==
    [publicKey |-> Undefined, privateKey |-> Undefined, signature |-> <<>>,
     startTimestamp |-> 0, durationDays |-> 0, userAddress |-> Undefined,
     contractAddresses |-> <<>>, eip712 |-> NoEIP712]

\* mutant of stringify: the authorization message is left out of the stored record
stringifyMut(sig) ==
    <<sig.publicKey, sig.privateKey, sig.signature, sig.startTimestamp, sig.durationDays,
      sig.userAddress, sig.contractAddresses>>

\* JSON.stringify of the eight fields, and JSON.parse of such a string
stringify(sig) ==
    <<sig.publicKey, sig.privateKey, sig.signature, sig.startTimestamp, sig.durationDays,
      sig.userAddress, sig.contractAddresses, sig.eip712>>
parse(str) ==
    IF Len(str) # 8 THEN Null
    ELSE [publicKey |-> str[1], privateKey |-> str[2], signature |-> str[3],
          startTimestamp |-> str[4], durationDays |-> str[5], userAddress |-> str[6],
          contractAddresses |-> str[7], eip712 |-> str[8]]

\* a number field and an array field that the parsed object does not have
MissingNumber == -1
MissingArray == <<Undefined>>

\* mutant of checkIs: the privateKey field is not looked at
checkIsMut(p) ==
    /\ p.publicKey # Undefined
    /\ p.signature # <<>>
    /\ p.startTimestamp # MissingNumber
    /\ p.durationDays # MissingNumber
    /\ p.userAddress # Undefined
    /\ p.contractAddresses # MissingArray
    /\ p.eip712 # NoEIP712

checkIs(p) ==
    /\ p.publicKey # Undefined
    /\ p.privateKey # Undefined
    /\ p.signature # <<>>
    /\ p.startTimestamp # MissingNumber
    /\ p.durationDays # MissingNumber
    /\ p.userAddress # Undefined
    /\ p.contractAddresses # MissingArray
    /\ p.eip712 # NoEIP712

\* storage.getItem and storage.setItem
NoItem == <<>>
getItem(st, key) == IF key \in DOMAIN st THEN st[key] ELSE NoItem
setItem(st, key, value) == [k \in DOMAIN st \cup {key} |-> IF k = key THEN value ELSE st[k]]

\* mutant of loadFromGenericStringStorage: an entry whose validity period has elapsed
\* is treated as absent
loadFromGenericStringStorageMut(st, contractAddresses, userAddress, publicKey) ==
    LET key == FhevmDecryptionSignatureStorageKey(contractAddresses, userAddress, publicKey)
        stored == getItem(st, key.key)
    IN  IF stored = NoItem THEN Null
        ELSE IF ~checkIs(parse(stored)) THEN Null
        ELSE IF now >= parse(stored).startTimestamp + parse(stored).durationDays * SecondsPerDay
        THEN Null
        ELSE parse(stored)

\* the capability stored for these arguments, or Null
loadFromGenericStringStorage(st, contractAddresses, userAddress, publicKey) ==
    LET key == FhevmDecryptionSignatureStorageKey(contractAddresses, userAddress, publicKey)
        stored == getItem(st, key.key)
    IN  IF stored = NoItem THEN Null
        ELSE IF ~checkIs(parse(stored)) THEN Null
        ELSE parse(stored)

saveToGenericStringStorage(st, sig) ==
    LET key == FhevmDecryptionSignatureStorageKey(sig.contractAddresses, sig.userAddress,
                                                  sig.publicKey)
    IN  setItem(st, key.key, stringify(sig))

IdleCall ==
    [pc |-> "idle", signer |-> Undefined, contractAddresses |-> <<>>, keyPair |-> NoKeyPair,
     userAddress |-> Undefined, publicKey |-> Undefined, privateKey |-> Undefined,
     startTimestamp |-> 0, result |-> Null, outcome |-> "", after |-> {}]
NoSetItem == [call |-> 0, key |-> <<>>, value |-> NoItem]

Finished(c) == calls[c].pc \in {"done", "threw"}

\* loadOrSign is called: signer.getAddress() of line 446 is pending
loadOrSign(c, signer, contractAddresses, keyPair) ==
    /\ calls[c].pc = "idle"
    /\ \A d \in Calls : d < c => calls[d].pc # "idle"
    /\ calls' = [calls EXCEPT ![c] =
            [IdleCall EXCEPT !.pc = "getAddress", !.signer = signer,
                             !.contractAddresses = contractAddresses, !.keyPair = keyPair,
                             !.after = {d \in Calls : Finished(d)}]]
    /\ UNCHANGED <<now, ledgerVars, storage, lastSetItem, keysGenerated>>

\* lines 446-472: the address arrives or getAddress rejects; the storage is read; a hit
\* is returned, a miss goes on to FhevmDecryptionSignature.new with a key pair
loadOrSignLoad(c, resolved) ==
    LET call == calls[c]
        userAddress == call.signer
        key == FhevmDecryptionSignatureStorageKey(call.contractAddresses, userAddress,
                                                  call.keyPair.publicKey)
        cached == loadFromGenericStringStorage(storage, call.contractAddresses, userAddress,
                                               call.keyPair.publicKey)
        generate == call.keyPair = NoKeyPair
        pair == IF generate THEN generateKeypair(keysGenerated + 1) ELSE call.keyPair
    IN  /\ call.pc = "getAddress"
        /\ IF ~resolved \/ key.err # ""
           THEN /\ calls' = [calls EXCEPT ![c].pc = "threw", ![c].outcome = "threw"]
                /\ UNCHANGED keysGenerated
           ELSE IF cached # Null
           THEN /\ calls' = [calls EXCEPT ![c].pc = "done", ![c].outcome = "cached",
                                          ![c].userAddress = userAddress,
                                          ![c].contractAddresses = key.contractAddresses,
                                          ![c].result = cached]
                /\ UNCHANGED keysGenerated
           ELSE /\ calls' = [calls EXCEPT ![c].pc = "newGetAddress",
                                          ![c].userAddress = userAddress,
                                          ![c].contractAddresses = key.contractAddresses,
                                          ![c].publicKey = pair.publicKey,
                                          ![c].privateKey = pair.privateKey]
                /\ keysGenerated' = IF generate THEN keysGenerated + 1 ELSE keysGenerated
        /\ UNCHANGED <<now, ledgerVars, storage, lastSetItem>>

\* _timestampNow()
timestampNow == now

\* lines 409-418 of new: the address arrives and the start time is taken, or getAddress
\* rejects and new returns null
newGetAddress(c, resolved) ==
    /\ calls[c].pc = "newGetAddress"
    /\ calls' = IF resolved
                THEN [calls EXCEPT ![c].pc = "signTypedData",
                                   ![c].startTimestamp = timestampNow]
                ELSE [calls EXCEPT ![c].pc = "done", ![c].outcome = "unresolved",
                                   ![c].result = Null]
    /\ UNCHANGED <<now, ledgerVars, storage, lastSetItem, keysGenerated>>

\* mutant of newSignTypedData: when the signer declines, a capability with a made-up
\* signature is saved before null is returned
newSignTypedDataMut(c, signed) ==
    LET call == calls[c]
        eip712 == createEIP712(call.publicKey, call.contractAddresses, call.startTimestamp,
                               DurationDays)
        sig == [publicKey |-> call.publicKey, privateKey |-> call.privateKey,
                signature |-> IF signed THEN signTypedData(call.signer, eip712)
                              ELSE <<Undefined, TypedDataEncoderHash(eip712)>>,
                startTimestamp |-> call.startTimestamp, durationDays |-> DurationDays,
                userAddress |-> call.userAddress,
                contractAddresses |-> call.contractAddresses, eip712 |-> eip712]
        key == FhevmDecryptionSignatureStorageKey(sig.contractAddresses, sig.userAddress,
                                                  sig.publicKey)
    IN  /\ call.pc = "signTypedData"
        /\ storage' = saveToGenericStringStorage(storage, sig)
        /\ lastSetItem' = [call |-> c, key |-> key.key, value |-> stringify(sig)]
        /\ calls' = IF signed
                    THEN [calls EXCEPT ![c].pc = "done", ![c].outcome = "signed",
                                       ![c].result = sig]
                    ELSE [calls EXCEPT ![c].pc = "done", ![c].outcome = "declined",
                                       ![c].result = Null]
        /\ UNCHANGED <<now, ledgerVars, keysGenerated>>

\* lines 419-436 and 474-484: the signer signs and the capability is saved and returned,
\* or the signer declines and loadOrSign returns null
newSignTypedData(c, signed) ==
    LET call == calls[c]
        eip712 == createEIP712(call.publicKey, call.contractAddresses, call.startTimestamp,
                               DurationDays)
        sig == [publicKey |-> call.publicKey, privateKey |-> call.privateKey,
                signature |-> signTypedData(call.signer, eip712),
                startTimestamp |-> call.startTimestamp, durationDays |-> DurationDays,
                userAddress |-> call.userAddress,
                contractAddresses |-> call.contractAddresses, eip712 |-> eip712]
        key == FhevmDecryptionSignatureStorageKey(sig.contractAddresses, sig.userAddress,
                                                  sig.publicKey)
    IN  /\ call.pc = "signTypedData"
        /\ IF signed
           THEN /\ storage' = saveToGenericStringStorage(storage, sig)
                /\ lastSetItem' = [call |-> c, key |-> key.key, value |-> stringify(sig)]
                /\ calls' = [calls EXCEPT ![c].pc = "done", ![c].outcome = "signed",
                                          ![c].result = sig]
           ELSE /\ calls' = [calls EXCEPT ![c].pc = "done", ![c].outcome = "declined",
                                          ![c].result = Null]
                /\ UNCHANGED <<storage, lastSetItem>>
        /\ UNCHANGED <<now, ledgerVars, keysGenerated>>

(***************************************************************************)
(* The create-exam page: handleSubmit calls the createExam of useCipherExam *)
(* and saves the questions under the exam id it returns.                   *)
(***************************************************************************)
\* the account connected to the page
PageAccount == "alice"
IdlePage ==
    [pc |-> "idle", shape |-> Shape("", 0, <<>>), startTime |-> 0, endTime |-> 0,
     newExamId |-> 0, receipt |-> <<>>, examId |-> 0]

\* lib/questionStorage.ts
STORAGE_PREFIX == "cipher-exam:questions:"
saveExamQuestions(ls, examId, questions) ==
    setItem(ls, STORAGE_PREFIX \o examId,
            [examId |-> examId, questions |-> questions, createdAt |-> now])
loadExamQuestions(ls, examId) ==
    IF getItem(ls, STORAGE_PREFIX \o examId) = NoItem THEN NoItem
    ELSE getItem(ls, STORAGE_PREFIX \o examId).questions

\* handleSubmit, with at least one question and questionCount = questions.length, calls
\* createExam, whose first await is the read of getNextExamId
handleSubmit(shape, startTime, endTime) ==
    /\ page.pc = "idle"
    /\ Len(shape.questionScores) # 0
    /\ shape.questionCount = Len(shape.questionScores)
    /\ page' = [IdlePage EXCEPT !.pc = "getNextExamId", !.shape = shape,
                                !.startTime = startTime, !.endTime = endTime]
    /\ UNCHANGED <<now, ledgerVars, calls, storage, lastSetItem, keysGenerated, localStorage>>

\* useCipherExam.createExam: "Get next exam ID before creation"
pageGetNextExamId ==
    /\ page.pc = "getNextExamId"
    /\ page' = [page EXCEPT !.pc = "createExam", !.newExamId = getNextExamId]
    /\ UNCHANGED <<now, ledgerVars, calls, storage, lastSetItem, keysGenerated, localStorage>>

\* the transaction is applied and its receipt arrives, or it reverts and handleSubmit
\* reports the error
pageCreateExam(threshold) ==
    LET passingScore == externalEuint32(PageAccount, threshold)
        err == createExamRevert(PageAccount, page.shape.questionCount, passingScore,
                                page.shape.questionScores, page.startTime, page.endTime)
    IN  /\ page.pc = "createExam"
        /\ createExam(PageAccount, page.shape.title, page.shape.questionCount, passingScore,
                      page.shape.questionScores, page.startTime, page.endTime)
        /\ page' = IF err # "" THEN [page EXCEPT !.pc = "failed"]
                   ELSE [page EXCEPT !.pc = "receipt",
                                     !.receipt = <<"ExamCreated", nextExamId, PageAccount>>]
        /\ UNCHANGED <<calls, storage, lastSetItem, keysGenerated, localStorage>>

\* "Verify the exam ID after creation": getNextExamId is read again and its value minus
\* one is returned; handleSubmit saves the questions under that id
pageReturn ==
    LET actualNextId == getNextExamId
        actualExamId == actualNextId - 1
    IN  /\ page.pc = "receipt"
        /\ page' = [page EXCEPT !.pc = "done", !.examId = actualExamId]
        /\ localStorage' = saveExamQuestions(localStorage, ToString(actualExamId),
                                             page.shape.title)
        /\ UNCHANGED <<now, ledgerVars, calls, storage, lastSetItem, keysGenerated>>

Init ==
    /\ now = Genesis
    /\ nextExamId = 0
    /\ exams = [e \in ExamIds |-> NoExam]
    /\ submissions = [e \in ExamIds |-> [s \in Principals |-> NoSubmission]]
    /\ examStudents = [e \in ExamIds |-> <<>>]
    /\ hasSubmitted = [e \in ExamIds |-> [s \in Principals |-> FALSE]]
    /\ acl = {}
    /\ events = <<>>
    /\ calls = [c \in Calls |-> IdleCall]
    /\ storage = <<>>
    /\ lastSetItem = NoSetItem
    /\ keysGenerated = 0
    /\ page = IdlePage
    /\ localStorage = <<>>

Tick ==
    /\ now < Genesis + MaxTime
    /\ now' = now + 1
    /\ UNCHANGED <<ledgerVars, clientVars>>

\* the wall clock of the client passes the validity period of a capability
Expire ==
    /\ now <= Genesis + MaxTime
    /\ now' = now + DurationDays * SecondsPerDay
    /\ UNCHANGED <<ledgerVars, clientVars>>

\* the ledger: transactions in a total order
Next ==
    \/ \E sender \in Creators, shape \in ExamShapes, owner \in Creators,
          threshold \in ThresholdValues, startTime \in TimeInputs, endTime \in TimeInputs :
            /\ createExam(sender, shape.title, shape.questionCount,
                          externalEuint32(owner, threshold), shape.questionScores,
                          startTime, endTime)
            /\ UNCHANGED clientVars
    \/ \E sender \in Students, examId \in ExamIds, owner \in Students, values \in ScoreInputs :
            /\ submitAnswers(sender, examId,
                             [i \in 1..Len(values) |-> externalEuint32(owner, values[i])])
            /\ UNCHANGED clientVars
    \/ \E sender \in Principals, examId \in ExamIds, student \in Principals :
            /\ computeTotalAndJudge(sender, examId, student)
            /\ UNCHANGED clientVars
    \/ Tick

Spec == Init /\ [][Next]_vars

\* the client: loadOrSign calls interleaved at their awaits
CapNext ==
    \/ \E c \in Calls, signer \in Signers, contractAddresses \in ContractAddressInputs,
          keyPair \in KeyPairInputs :
            loadOrSign(c, signer, contractAddresses, keyPair) /\ UNCHANGED pageVars
    \/ \E c \in Calls, resolved \in BOOLEAN : loadOrSignLoad(c, resolved) /\ UNCHANGED pageVars
    \/ \E c \in Calls, resolved \in BOOLEAN : newGetAddress(c, resolved) /\ UNCHANGED pageVars
    \/ \E c \in Calls, signed \in BOOLEAN : newSignTypedData(c, signed) /\ UNCHANGED pageVars
    \/ Tick
    \/ Expire

CapSpec == Init /\ [][CapNext]_vars

\* the create-exam page of one account next to the transactions of another creator
PageNext ==
    \/ \E sender \in Creators, shape \in ValidShapes, threshold \in ThresholdValues,
          startTime \in TimeInputs, endTime \in TimeInputs :
            /\ createExam(sender, shape.title, shape.questionCount,
                          externalEuint32(sender, threshold), shape.questionScores,
                          startTime, endTime)
            /\ UNCHANGED clientVars
    \/ \E shape \in ExamShapes, startTime \in TimeInputs, endTime \in TimeInputs :
            handleSubmit(shape, startTime, endTime)
    \/ pageGetNextExamId
    \/ \E threshold \in ThresholdValues : pageCreateExam(threshold)
    \/ pageReturn
    \/ Tick

PageSpec == Init /\ [][PageNext]_vars

\* a storage that already holds an item that is no capability: a string that is not
\* JSON, or the JSON of a capability without one of its eight fields
NotJSON == <<"{">>
WellFormed ==
    LET eip712 == createEIP712("pk0", <<Ledger>>, Genesis, DurationDays)
    IN  [publicKey |-> "pk0", privateKey |-> "sk0",
         signature |-> signTypedData("alice", eip712),
         startTimestamp |-> Genesis, durationDays |-> DurationDays, userAddress |-> "alice",
         contractAddresses |-> <<Ledger>>, eip712 |-> eip712]
MalformedItems ==
    {NotJSON,
     stringify([WellFormed EXCEPT !.publicKey = Undefined]),
     stringify([WellFormed EXCEPT !.privateKey = Undefined]),
     stringify([WellFormed EXCEPT !.signature = <<>>]),
     stringify([WellFormed EXCEPT !.startTimestamp = MissingNumber]),
     stringify([WellFormed EXCEPT !.durationDays = MissingNumber]),
     stringify([WellFormed EXCEPT !.userAddress = Undefined]),
     stringify([WellFormed EXCEPT !.contractAddresses = MissingArray]),
     stringify([WellFormed EXCEPT !.eip712 = NoEIP712])}
MalformedKeys ==
    {FhevmDecryptionSignatureStorageKey(<<Ledger>>, "alice", publicKey).key :
        publicKey \in {Undefined, "pk0"}}

LoadInit ==
    /\ now = Genesis
    /\ nextExamId = 0
    /\ exams = [e \in ExamIds |-> NoExam]
    /\ submissions = [e \in ExamIds |-> [s \in Principals |-> NoSubmission]]
    /\ examStudents = [e \in ExamIds |-> <<>>]
    /\ hasSubmitted = [e \in ExamIds |-> [s \in Principals |-> FALSE]]
    /\ acl = {}
    /\ events = <<>>
    /\ calls = [c \in Calls |-> IdleCall]
    /\ \E key \in MalformedKeys, item \in MalformedItems : storage = setItem(<<>>, key, item)
    /\ lastSetItem = NoSetItem
    /\ keysGenerated = 0
    /\ page = IdlePage
    /\ localStorage = <<>>

LoadNext ==
    \/ \E c \in Calls, signer \in Signers, contractAddresses \in ContractAddressInputs,
          keyPair \in KeyPairInputs :
            loadOrSign(c, signer, contractAddresses, keyPair) /\ UNCHANGED pageVars
    \/ \E c \in Calls, resolved \in BOOLEAN : loadOrSignLoad(c, resolved) /\ UNCHANGED pageVars
    \/ \E c \in Calls, resolved \in BOOLEAN : newGetAddress(c, resolved) /\ UNCHANGED pageVars
    \/ \E c \in Calls, signed \in BOOLEAN : newSignTypedData(c, signed) /\ UNCHANGED pageVars

LoadSpec == LoadInit /\ [][LoadNext]_vars

(***************************************************************************)
(* Helpers of the properties.                                              *)
(***************************************************************************)
Computed(e, s) == \E i \in 1..Len(events) : events[i] = <<"TotalComputed", e, s>>
ComputeCount(e, s) == Cardinality({i \in 1..Len(events) : events[i] = <<"TotalComputed", e, s>>})
Granted(h) == {x[2] : x \in {y \in acl : y[1] = h}}
Encrypt(owner, values) == [i \in 1..Len(values) |-> externalEuint32(owner, values[i])]
ClearScores(e, s) ==
    [i \in 1..Len(submissions[e][s].scores) |-> Decrypt(submissions[e][s].scores[i])]

\* the exact (unbounded) sum of euint32 cleartexts, as three limbs <<carry, hi, lo>>
RECURSIVE SumWide(_)
SumWide(vs) ==
    IF vs = <<>> THEN <<0, 0, 0>>
    ELSE LET r == SumWide(Tail(vs))
             lo == r[3] + Head(vs)[2]
             hi == r[2] + Head(vs)[1] + (lo \div Limb)
         IN  <<r[1] + (hi \div Limb), hi % Limb, lo % Limb>>
WideGe(w, v) == w[1] > 0 \/ Ge32(<<w[2], w[3]>>, v)

\* two calls with the same signer, the same set of contract addresses, the same keyPair
SameScope(c, d) ==
    /\ calls[c].signer = calls[d].signer
    /\ SeqRange(calls[c].contractAddresses) = SeqRange(calls[d].contractAddresses)
    /\ calls[c].keyPair = calls[d].keyPair
\* d was called after c had returned
Successive(c, d) == c \in calls[d].after
Concurrent(c, d) == c # d /\ c \notin calls[d].after /\ d \notin calls[c].after
\* what a load with the call's own arguments finds in the storage now
CacheEntry(c) ==
    loadFromGenericStringStorage(storage, calls[c].contractAddresses, calls[c].signer,
                                 calls[c].keyPair.publicKey)
\* a well-formed capability of the call's signer for the call's contract addresses
ValidFor(sig, c) ==
    /\ checkIs(sig)
    /\ sig.userAddress = calls[c].signer
    /\ SeqRange(sig.contractAddresses) = SeqRange(calls[c].contractAddresses)
    /\ sig.signature = signTypedData(calls[c].signer, sig.eip712)

(***************************************************************************)
(* C1: every handle of a submission (scores, total, passed) is granted to  *)
(* no principal other than its student and the ledger, and an exam's       *)
(* threshold handle to no principal other than its creator and the ledger. *)
(***************************************************************************)
C1_GrantsOnlyToOwners ==
    /\ \A e \in ExamIds, s \in Principals :
         submissions[e][s].exists =>
            \A h \in SeqRange(submissions[e][s].scores)
                     \cup {submissions[e][s].totalScore, submissions[e][s].isPassed} :
                Granted(h) \subseteq {s, Ledger}
    /\ \A e \in ExamIds :
         exams[e].isActive => Granted(exams[e].passingScore) \subseteq {exams[e].creator, Ledger}

\* two students have submitted to an exam of another creator and one total is computed
C1_Witness ==
    \E e \in ExamIds, s \in Principals, t \in Principals :
        /\ s # t /\ s # exams[e].creator
        /\ submissions[e][s].exists /\ submissions[e][t].exists
        /\ Computed(e, s)
        /\ Granted(submissions[e][s].totalScore) = {s, Ledger}

(***************************************************************************)
(* C2: a reveal request succeeds only if, for each (handle, contract)      *)
(* pair, the capability's user is in the handle's grant set, the contract  *)
(* is in the capability's scope and the capability has not expired; a user *)
(* outside the grant set is denied even with a valid, unexpired capability.*)
(***************************************************************************)
C2_RevealOnlyIfGranted ==
    \A cap \in CapabilityInputs, e \in ExamIds, s \in Principals,
       ca \in {Ledger, OtherContract} :
        submissions[e][s].exists =>
            LET req == handleDecryptRequest(e, s, ca)
            IN  /\ userDecrypt(cap, req).err = "" =>
                    \A i \in 1..Len(req) :
                        /\ cap.userAddress \in Granted(req[i].handle)
                        /\ req[i].contractAddress \in SeqRange(cap.contractAddresses)
                        /\ now < cap.startTimestamp + cap.durationDays * SecondsPerDay
                /\ (\E i \in 1..Len(req) : cap.userAddress \notin Granted(req[i].handle))
                        => userDecrypt(cap, req).err = "RevealDenied"

\* one student's request succeeds while another principal's request for the same
\* handles, with an unexpired capability scoped to the ledger, is denied
C2_Witness ==
    \E cap \in CapabilityInputs, other \in CapabilityInputs, e \in ExamIds, s \in Principals :
        /\ submissions[e][s].exists
        /\ cap.userAddress = s
        /\ userDecrypt(cap, handleDecryptRequest(e, s, Ledger)).err = ""
        /\ other.userAddress # s
        /\ other.contractAddresses = <<Ledger>>
        /\ Unexpired(other)
        /\ userDecrypt(other, handleDecryptRequest(e, s, Ledger)).err = "RevealDenied"

(***************************************************************************)
(* C3: after computeTotalAndJudge the decrypted total is the sum of the    *)
(* cleartext scores and passed is true exactly when total >= threshold.    *)
(***************************************************************************)
\* as claimed: the exact sum
C3_TotalIsExactSum ==
    \A e \in ExamIds, s \in Principals :
        Computed(e, s) =>
            LET sum == SumWide(ClearScores(e, s))
                total == Decrypt(submissions[e][s].totalScore)
            IN  /\ sum = <<0, total[1], total[2]>>
                /\ DecryptBool(submissions[e][s].isPassed)
                     <=> WideGe(sum, Decrypt(exams[e].passingScore))

\* as amended: the sum modulo 2^32, and passed compares that wrapped total
C3_TotalIsSumMod32 ==
    \A e \in ExamIds, s \in Principals :
        Computed(e, s) =>
            LET sum == SumWide(ClearScores(e, s))
                total == Decrypt(submissions[e][s].totalScore)
            IN  /\ total = <<sum[2], sum[3]>>
                /\ DecryptBool(submissions[e][s].isPassed)
                     <=> Ge32(<<sum[2], sum[3]>>, Decrypt(exams[e].passingScore))

\* a computed submission whose scores sum to 2^32 or more: the exact sum reaches the
\* threshold, the wrapped total does not
C3_Witness ==
    \E e \in ExamIds, s \in Principals :
        /\ Computed(e, s)
        /\ SumWide(ClearScores(e, s))[1] > 0
        /\ Decrypt(submissions[e][s].totalScore) = U32(29)
        /\ ~DecryptBool(submissions[e][s].isPassed)

(***************************************************************************)
(* C4: two successive loadOrSign calls with the same signer and the same   *)
(* contract addresses, with or without a keyPair, make one signing         *)
(* interaction in total: the first signs and saves, the second is a cache  *)
(* hit that returns a record equal to the first in every field.            *)
(***************************************************************************)
C4_SecondCallIsCacheHit ==
    \A c \in Calls, d \in Calls :
        (/\ Successive(c, d)
         /\ SameScope(c, d)
         /\ calls[c].outcome = "signed"
         /\ calls[d].outcome \in {"signed", "cached"})
        => /\ calls[d].outcome = "cached"
           /\ calls[d].result = calls[c].result

\* the same statement for calls that supply a keyPair
C4_SecondCallIsCacheHitWithKeyPair ==
    \A c \in Calls, d \in Calls :
        (/\ Successive(c, d)
         /\ SameScope(c, d)
         /\ calls[c].keyPair # NoKeyPair
         /\ calls[c].outcome = "signed"
         /\ calls[d].pc = "done")
        => /\ calls[d].outcome = "cached"
           /\ calls[d].result = calls[c].result

\* a second call with a supplied keyPair has hit the cache the first call filled
C4_WitnessWithKeyPair ==
    \E c \in Calls, d \in Calls :
        /\ Successive(c, d) /\ SameScope(c, d)
        /\ calls[c].keyPair # NoKeyPair
        /\ calls[c].outcome = "signed" /\ calls[d].outcome = "cached"
        /\ calls[c].contractAddresses = <<Ledger, OtherContract>>

(***************************************************************************)
(* C5: a second submitAnswers by the same student for the same exam always *)
(* fails and leaves the stored submission unchanged.                       *)
(***************************************************************************)
\* as claimed: the failure is always "Already submitted"
C5_AlwaysAlreadySubmitted ==
    \A s \in Students, e \in ExamIds, owner \in Students, values \in ScoreInputs :
        hasSubmitted[e][s] =>
            submitAnswersRevert(s, e, Encrypt(owner, values)) = "Already submitted"

\* as amended: "Already submitted" up to endTime, "Exam is not in progress" after it
C5_SecondSubmitFails ==
    /\ [](\A s \in Students, e \in ExamIds, owner \in Students, values \in ScoreInputs :
            hasSubmitted[e][s] =>
                submitAnswersRevert(s, e, Encrypt(owner, values)) =
                    IF now > exams[e].endTime THEN "Exam is not in progress"
                    ELSE "Already submitted")
    /\ [][ledgerVars' # ledgerVars =>
            \A s \in Students, e \in ExamIds :
                hasSubmitted[e][s] =>
                    ~ \E owner \in Students, values \in ScoreInputs :
                          submitAnswers(s, e, Encrypt(owner, values))]_vars

\* a student has submitted and the exam has ended
C5_Witness ==
    \E s \in Students, e \in ExamIds :
        hasSubmitted[e][s] /\ submissions[e][s].exists /\ now > exams[e].endTime

(***************************************************************************)
(* C6: grant sets only widen, and a recomputation never takes from the     *)
(* student the access to the total and passed handles of the submission.   *)
(***************************************************************************)
C6_GrantsOnlyWiden ==
    [][/\ acl \subseteq acl'
       /\ \A e \in ExamIds, s \in Principals :
            (/\ submissions[e][s].exists
             /\ s \in Granted(submissions[e][s].totalScore)
             /\ s \in Granted(submissions[e][s].isPassed))
            => /\ <<submissions'[e][s].totalScore, s>> \in acl'
               /\ <<submissions'[e][s].isPassed, s>> \in acl']_vars

\* a total has been computed twice
C6_Witness ==
    \E e \in ExamIds, s \in Principals :
        /\ ComputeCount(e, s) >= 2
        /\ s \in Granted(submissions[e][s].totalScore)
        /\ s \in Granted(submissions[e][s].isPassed)

(***************************************************************************)
(* C7: when the signer declines or fails to sign, or its address cannot be *)
(* resolved, loadOrSign returns null and never throws.                     *)
(***************************************************************************)
C7_NullNeverThrows ==
    \A c \in Calls :
        /\ calls[c].pc # "threw"
        /\ calls[c].outcome \in {"declined", "unresolved"} => calls[c].result = Null

\* the part of the statement about a signer that declines, or whose address is lost
\* inside FhevmDecryptionSignature.new
C7_NullWhenSigningFails ==
    \A c \in Calls :
        calls[c].outcome \in {"declined", "unresolved"}
            => calls[c].pc = "done" /\ calls[c].result = Null

\* one call was declined and another lost the address after the cache lookup
C7_WitnessSigningFails ==
    \E c \in Calls, d \in Calls :
        calls[c].outcome = "declined" /\ calls[d].outcome = "unresolved"

(***************************************************************************)
(* C8: two concurrent loadOrSign calls with the same signer and the same   *)
(* contract addresses both complete, each returns a well-formed capability *)
(* for that scope, and afterwards the cache entry for the scope is a       *)
(* well-formed capability equal to the one written last.                   *)
(***************************************************************************)
C8_LastWriteWins ==
    \A c \in Calls, d \in Calls :
        (/\ Concurrent(c, d)
         /\ SameScope(c, d)
         /\ calls[c].outcome \in {"signed", "cached"}
         /\ calls[d].outcome \in {"signed", "cached"}
         /\ lastSetItem.call \in {c, d})
        => /\ ValidFor(calls[c].result, c)
           /\ ValidFor(calls[d].result, d)
           /\ ValidFor(CacheEntry(c), c)
           /\ CacheEntry(c) = parse(lastSetItem.value)

\* the same statement for calls that supply a keyPair
C8_LastWriteWinsWithKeyPair ==
    \A c \in Calls, d \in Calls :
        (/\ Concurrent(c, d)
         /\ SameScope(c, d)
         /\ calls[c].keyPair # NoKeyPair
         /\ calls[c].outcome \in {"signed", "cached"}
         /\ calls[d].outcome \in {"signed", "cached"}
         /\ lastSetItem.call \in {c, d})
        => /\ ValidFor(calls[c].result, c)
           /\ ValidFor(calls[d].result, d)
           /\ ValidFor(CacheEntry(c), c)
           /\ CacheEntry(c) = parse(lastSetItem.value)

\* two concurrent calls with a supplied keyPair have both signed and written
C8_WitnessWithKeyPair ==
    \E c \in Calls, d \in Calls :
        /\ Concurrent(c, d) /\ SameScope(c, d)
        /\ calls[c].keyPair # NoKeyPair
        /\ calls[c].outcome = "signed" /\ calls[d].outcome = "signed"
        /\ lastSetItem.call = d
        /\ calls[c].result # calls[d].result

(***************************************************************************)
(* C9: createExam with a violated precondition fails and changes nothing:  *)
(* nextExamId, the exam table, the grant sets and the events stay as they  *)
(* are.                                                                    *)
(***************************************************************************)
InvalidExamParameters(questionCount, questionScores, startTime, endTime) ==
    \/ questionCount < 1 \/ questionCount > 100
    \/ Len(questionScores) # questionCount
    \/ \E i \in 1..Len(questionScores) : questionScores[i] < 1 \/ questionScores[i] > 100
    \/ endTime <= startTime
    \/ startTime < now

C9_CreateExamAtomic ==
    /\ [](\A sender \in Creators, shape \in ExamShapes, owner \in Creators,
             threshold \in ThresholdValues, startTime \in TimeInputs, endTime \in TimeInputs :
            InvalidExamParameters(shape.questionCount, shape.questionScores, startTime, endTime)
            => createExamRevert(sender, shape.questionCount, externalEuint32(owner, threshold),
                                shape.questionScores, startTime, endTime) # "")
    /\ [][ledgerVars' # ledgerVars =>
            ~ \E sender \in Creators, shape \in ExamShapes, owner \in Creators,
                 threshold \in ThresholdValues, startTime \in TimeInputs, endTime \in TimeInputs :
                /\ InvalidExamParameters(shape.questionCount, shape.questionScores,
                                         startTime, endTime)
                /\ createExam(sender, shape.title, shape.questionCount,
                              externalEuint32(owner, threshold), shape.questionScores,
                              startTime, endTime)]_vars

\* an exam exists, time has passed, and each of the requires on the parameters rejects
\* some input
C9_Witness ==
    /\ nextExamId > 0
    /\ now > Genesis
    /\ \A reason \in {"Invalid question count", "Question scores length mismatch",
                      "Invalid time range", "Start time must be in future",
                      "Invalid question score"} :
          \E sender \in Creators, shape \in ExamShapes, startTime \in TimeInputs,
             endTime \in TimeInputs :
              createExamRevert(sender, shape.questionCount, externalEuint32(sender, U32(60)),
                               shape.questionScores, startTime, endTime) = reason

(***************************************************************************)
(* C10: after a successful createExam, getExamInfo on the assigned id      *)
(* returns the supplied title, questionCount and per-question max scores,  *)
(* and keeps returning them after any further operation.                   *)
(***************************************************************************)
C10_GetExamInfoReturnsSupplied ==
    [][/\ \A id \in ExamIds :
            (id = nextExamId /\ nextExamId' # nextExamId) =>
                \A sender \in Creators, shape \in ExamShapes, owner \in Creators,
                   threshold \in ThresholdValues, startTime \in TimeInputs,
                   endTime \in TimeInputs :
                    createExam(sender, shape.title, shape.questionCount,
                               externalEuint32(owner, threshold), shape.questionScores,
                               startTime, endTime)
                    => /\ getExamInfo(id)'.err = ""
                       /\ getExamInfo(id)'.title = shape.title
                       /\ getExamInfo(id)'.questionCount = shape.questionCount
                       /\ getExamInfo(id)'.questionScores = shape.questionScores
       /\ \A e \in ExamIds :
            getExamInfo(e).err = "" => getExamInfo(e)' = getExamInfo(e)]_vars

\* two exams exist, the first with two different max scores, and a later submission
\* has been computed
C10_Witness ==
    /\ nextExamId = 2
    /\ getExamInfo(0).questionScores = <<1, 100>>
    /\ getExamInfo(1).err = ""
    /\ \E e \in ExamIds, s \in Principals : Computed(e, s)

(***************************************************************************)
(* C11: exam ids are assigned in sequence and never reused: a successful   *)
(* createExam assigns the current nextExamId and adds one to it, nothing   *)
(* else changes nextExamId, nextExamId is the number of exams created, and *)
(* getExamInfo succeeds exactly on the ids below nextExamId and fails with *)
(* "Exam does not exist" on every other id.                                *)
(***************************************************************************)
ExamsCreated == {i \in 1..Len(events) : events[i][1] = "ExamCreated"}

C11_SequentialExamIds ==
    /\ [](/\ getNextExamId = Cardinality(ExamsCreated)
          /\ \A i \in ExamsCreated, j \in ExamsCreated : i < j => events[i][2] < events[j][2]
          /\ \A e \in ExamIds :
                /\ getExamInfo(e).err = "" <=> e < nextExamId
                /\ e >= nextExamId => getExamInfo(e).err = "Exam does not exist")
    /\ [][\A id \in ExamIds :
            id = nextExamId =>
                \/ nextExamId' = id
                \/ /\ nextExamId' = id + 1
                   /\ ~exams[id].isActive /\ exams'[id].isActive
                   /\ events'[Len(events')][1] = "ExamCreated"
                   /\ events'[Len(events')][2] = id
                   /\ \E sender \in Creators, shape \in ExamShapes, owner \in Creators,
                         threshold \in ThresholdValues, startTime \in TimeInputs,
                         endTime \in TimeInputs :
                        createExam(sender, shape.title, shape.questionCount,
                                   externalEuint32(owner, threshold), shape.questionScores,
                                   startTime, endTime)]_vars

\* two exams were created, with a submission in between, and the next id is unused
C11_Witness ==
    /\ nextExamId = 2
    /\ getExamInfo(0).err = "" /\ getExamInfo(1).err = ""
    /\ getExamInfo(2).err = "Exam does not exist"
    /\ Len(events) >= 3
    /\ events[1][1] = "ExamCreated" /\ events[2][1] = "AnswersSubmitted"
    /\ events[3][1] = "ExamCreated"

(***************************************************************************)
(* C12: submitAnswers on an existing exam fails with "Exam is not in       *)
(* progress", changing nothing, when now < startTime or now > endTime, and *)
(* is not rejected for timing when startTime <= now <= endTime.            *)
(***************************************************************************)
C12_OnlyInProgress ==
    /\ [](\A s \in Students, e \in ExamIds, owner \in Students, values \in ScoreInputs :
            exams[e].isActive =>
                LET r == submitAnswersRevert(s, e, Encrypt(owner, values))
                IN  IF now < exams[e].startTime \/ now > exams[e].endTime
                    THEN r = "Exam is not in progress"
                    ELSE r \notin {"Exam is not in progress", "Exam does not exist"})
    /\ [][ledgerVars' # ledgerVars =>
            ~ \E s \in Students, e \in ExamIds, owner \in Students, values \in ScoreInputs :
                /\ exams[e].isActive
                /\ now < exams[e].startTime \/ now > exams[e].endTime
                /\ submitAnswers(s, e, Encrypt(owner, values))]_vars

\* an exam has ended after one student submitted at its start instant and another at
\* its end instant
C12_Witness ==
    \E e \in ExamIds, s \in Students, t \in Students :
        /\ exams[e].isActive /\ now > exams[e].endTime
        /\ submissions[e][s].exists /\ submissions[e][s].submittedAt = exams[e].startTime
        /\ submissions[e][t].exists /\ submissions[e][t].submittedAt = exams[e].endTime

\* an exam that has not started yet
C12_WitnessNotStarted ==
    \E e \in ExamIds : exams[e].isActive /\ now < exams[e].startTime

(***************************************************************************)
(* C13: getExamStatus of an exam is a function of now, startTime and       *)
(* endTime: not started (0) when now < startTime, in progress (1) when     *)
(* startTime <= now <= endTime, ended (2) when now > endTime.              *)
(***************************************************************************)
C13_StatusByTime ==
    \A e \in ExamIds :
        exams[e].isActive =>
            getExamStatus(e) = IF now < exams[e].startTime THEN 0
                               ELSE IF now <= exams[e].endTime THEN 1
                               ELSE 2

\* one exam is at the instant after its end, another at its end instant
C13_Witness ==
    \E a \in ExamIds, b \in ExamIds :
        /\ exams[a].isActive /\ now = exams[a].endTime + 1 /\ getExamStatus(a) = 2
        /\ exams[b].isActive /\ now = exams[b].endTime /\ getExamStatus(b) = 1

\* one exam is at the instant before its start, another at its start instant
C13_WitnessStart ==
    \E a \in ExamIds, b \in ExamIds :
        /\ exams[a].isActive /\ now = exams[a].startTime - 1 /\ getExamStatus(a) = 0
        /\ exams[b].isActive /\ now = exams[b].startTime /\ getExamStatus(b) = 1

(***************************************************************************)
(* C14: computeTotalAndJudge fails with "No submission found" when there   *)
(* is no submission for (examId, student), and with "Not authorized" when  *)
(* there is one and the caller is neither the student nor the exam's       *)
(* creator; a failed call changes neither the submission, nor a grant set, *)
(* nor the events.                                                         *)
(***************************************************************************)
C14_ComputeRejects ==
    /\ [](\A sender \in Principals, e \in ExamIds, student \in Principals :
            /\ ~submissions[e][student].exists
                  => computeTotalAndJudgeRevert(sender, e, student) = "No submission found"
            /\ (/\ submissions[e][student].exists
                /\ sender # student /\ sender # exams[e].creator)
                  => computeTotalAndJudgeRevert(sender, e, student) = "Not authorized")
    /\ [][ledgerVars' # ledgerVars =>
            ~ \E sender \in Principals, e \in ExamIds, student \in Principals :
                /\ \/ ~submissions[e][student].exists
                   \/ sender # student /\ sender # exams[e].creator
                /\ computeTotalAndJudge(sender, e, student)]_vars

\* a computed submission of a student who is not the creator, a third principal who is
\* refused, and a student without a submission
C14_Witness ==
    \E e \in ExamIds, s \in Principals, other \in Principals, t \in Principals :
        /\ Computed(e, s) /\ s # exams[e].creator
        /\ other # s /\ other # exams[e].creator
        /\ computeTotalAndJudgeRevert(other, e, s) = "Not authorized"
        /\ ~submissions[e][t].exists
        /\ computeTotalAndJudgeRevert(t, e, t) = "No submission found"

(***************************************************************************)
(* C15: a second computeTotalAndJudge on an unchanged submission yields    *)
(* the same decrypted total and the same decrypted passed value as the     *)
(* first.                                                                  *)
(***************************************************************************)
C15_RecomputeIdempotent ==
    [][\A e \in ExamIds, s \in Principals :
        Computed(e, s) =>
            /\ Decrypt(submissions'[e][s].totalScore) = Decrypt(submissions[e][s].totalScore)
            /\ DecryptBool(submissions'[e][s].isPassed) = DecryptBool(submissions[e][s].isPassed)]_vars

\* a passing total of 60 has been computed twice for a student who is not the creator
C15_Witness ==
    \E e \in ExamIds, s \in Principals :
        /\ ComputeCount(e, s) >= 2
        /\ s # exams[e].creator
        /\ Decrypt(submissions[e][s].totalScore) = U32(60)
        /\ DecryptBool(submissions[e][s].isPassed)

(***************************************************************************)
(* C16: after a successful computeTotalAndJudge for (exam, student), the   *)
(* student and the ledger are both in the grant set of the stored total    *)
(* handle and of the stored passed handle, whoever made the call.          *)
(***************************************************************************)
C16_ComputeGrantsStudentAndLedger ==
    \A e \in ExamIds, s \in Principals :
        Computed(e, s) =>
            /\ {s, Ledger} \subseteq Granted(submissions[e][s].totalScore)
            /\ {s, Ledger} \subseteq Granted(submissions[e][s].isPassed)

\* a passing result has been computed for a student who is not the creator
C16_Witness ==
    \E e \in ExamIds, s \in Principals :
        /\ Computed(e, s) /\ s # exams[e].creator
        /\ DecryptBool(submissions[e][s].isPassed)
        /\ Granted(submissions[e][s].totalScore) = {s, Ledger}
        /\ Granted(submissions[e][s].isPassed) = {s, Ledger}

(***************************************************************************)
(* C17: after a successful submitAnswers a submission exists for (exam,    *)
(* caller) with total and passed at their unset values (encrypted 0 and    *)
(* false), the caller and the ledger are in the grant set of every         *)
(* submitted score handle, and the caller is the new last entry of the     *)
(* exam's roster.                                                          *)
(***************************************************************************)
C17_SubmitEffects ==
    [][ledgerVars' # ledgerVars =>
       \A s \in Students, e \in ExamIds, owner \in Students, values \in ScoreInputs :
        submitAnswers(s, e, Encrypt(owner, values)) =>
            /\ submissions'[e][s].exists
            /\ getMyScores(e, s)'.value = Encrypt(owner, values)
            /\ getMyEncryptedTotal(e, s)'.value = asEuint32(Zero32)
            /\ Decrypt(getMyEncryptedTotal(e, s)'.value) = Zero32
            /\ getMyPassedStatus(e, s)'.value = asEbool(FALSE)
            /\ ~DecryptBool(getMyPassedStatus(e, s)'.value)
            /\ \A i \in 1..Len(values) :
                  /\ <<Encrypt(owner, values)[i], s>> \in acl'
                  /\ <<Encrypt(owner, values)[i], Ledger>> \in acl'
            /\ getExamStudents(e)' = Append(getExamStudents(e), s)]_vars

\* the second student of a roster has submitted two scores, not yet computed
C17_Witness ==
    \E e \in ExamIds, s \in Students, t \in Students :
        /\ s # t
        /\ getExamStudents(e) = <<t, s>>
        /\ Len(submissions[e][s].scores) = 2
        /\ submissions[e][s].scores[1] # submissions[e][s].scores[2]
        /\ submissions[e][s].totalScore = asEuint32(Zero32)
        /\ \A h \in SeqRange(submissions[e][s].scores) : Granted(h) = {s, Ledger}

(***************************************************************************)
(* C18: after a successful createExam the exam is stored active and the    *)
(* creator and the ledger are both in the grant set of the exam's          *)
(* threshold handle.                                                       *)
(***************************************************************************)
C18_CreateGrantsCreatorAndLedger ==
    \A i \in ExamsCreated :
        LET id == events[i][2]
            creator == events[i][3]
        IN  /\ exams[id].isActive
            /\ exams[id].creator = creator
            /\ {creator, Ledger} \subseteq Granted(exams[id].passingScore)

\* a total has been compared with the threshold of a created exam and did not reach it
C18_Witness ==
    \E e \in ExamIds, s \in Principals :
        /\ exams[e].isActive
        /\ Granted(exams[e].passingScore) = {exams[e].creator, Ledger}
        /\ Computed(e, s)
        /\ ~DecryptBool(submissions[e][s].isPassed)
        /\ submissions[e][s].isPassed.args[2] = exams[e].passingScore

(***************************************************************************)
(* C19: submitAnswers with a number of scores different from the exam's    *)
(* questionCount fails with "Score count mismatch" and has no partial      *)
(* effect: no submission, hasSubmitted still false, roster, grant sets and *)
(* events unchanged.                                                       *)
(***************************************************************************)
C19_ScoreCountMismatch ==
    /\ [](\A s \in Students, e \in ExamIds, owner \in Students, values \in ScoreInputs :
            (/\ onlyActiveExamRevert(e) = ""
             /\ ~hasSubmitted[e][s]
             /\ Len(values) # exams[e].questionCount)
            => submitAnswersRevert(s, e, Encrypt(owner, values)) = "Score count mismatch")
    /\ [][ledgerVars' # ledgerVars =>
            ~ \E s \in Students, e \in ExamIds, owner \in Students, values \in ScoreInputs :
                /\ Len(values) # exams[e].questionCount
                /\ submitAnswers(s, e, Encrypt(owner, values))]_vars

\* an exam of two questions in progress, with one student in and another still out, for
\* whom lists of no score and of one score are rejected
C19_Witness ==
    \E e \in ExamIds, s \in Students, t \in Students :
        /\ onlyActiveExamRevert(e) = "" /\ exams[e].questionCount = 2
        /\ hasSubmitted[e][t] /\ ~hasSubmitted[e][s] /\ ~submissions[e][s].exists
        /\ \A n \in {0, 1} :
              \E values \in ScoreInputs :
                  /\ Len(values) = n
                  /\ submitAnswersRevert(s, e, Encrypt(s, values)) = "Score count mismatch"

(***************************************************************************)
(* C20: every existing submission holds exactly as many score handles as   *)
(* the questionCount of its exam.                                          *)
(***************************************************************************)
C20_ScoresMatchQuestionCount ==
    \A e \in ExamIds, s \in Principals :
        submissions[e][s].exists => Len(getMyScores(e, s).value) = exams[e].questionCount

\* submissions to two exams of different question counts
C20_Witness ==
    \E a \in ExamIds, b \in ExamIds, s \in Principals, t \in Principals :
        /\ submissions[a][s].exists /\ Len(submissions[a][s].scores) = 1
        /\ submissions[b][t].exists /\ Len(submissions[b][t].scores) = 2

(***************************************************************************)
(* C21: once a submission exists, its score handles, its timestamp and its *)
(* existence flag never change; its total and passed fields change only by *)
(* a successful computeTotalAndJudge for the same (exam, student);         *)
(* operations on other exams or students leave it as it is.                *)
(***************************************************************************)
C21_SubmissionFrame ==
    [][ledgerVars' # ledgerVars =>
       \A e \in ExamIds, s \in Principals :
        submissions[e][s].exists =>
            /\ submissions'[e][s].scores = submissions[e][s].scores
            /\ submissions'[e][s].submittedAt = submissions[e][s].submittedAt
            /\ submissions'[e][s].exists
            /\ submissions'[e][s] # submissions[e][s] =>
                  /\ events' = Append(events, <<"TotalComputed", e, s>>)
                  /\ \E sender \in {s, exams[e].creator} : computeTotalAndJudge(sender, e, s)]_vars

\* of two submissions to one exam, one has been computed and the other is untouched
C21_Witness ==
    \E e \in ExamIds, s \in Principals, t \in Principals :
        /\ s # t
        /\ submissions[e][s].exists /\ submissions[e][t].exists
        /\ Computed(e, s) /\ ~Computed(e, t)
        /\ submissions[e][s].totalScore # asEuint32(Zero32)
        /\ submissions[e][t].totalScore = asEuint32(Zero32)
        /\ submissions[e][t].isPassed = asEbool(FALSE)

(***************************************************************************)
(* C22: once created, an exam record is never modified or deleted: every   *)
(* field of it is the same in every later state.                           *)
(***************************************************************************)
C22_ExamImmutable ==
    [][\A e \in ExamIds : exams[e].isActive => exams'[e] = exams[e]]_vars

\* after the first exam: a submission, a computation, and then a second exam
C22_Witness ==
    /\ Len(events) = 4
    /\ events[1][1] = "ExamCreated" /\ events[1][2] = 0
    /\ events[2][1] = "AnswersSubmitted"
    /\ events[3][1] = "TotalComputed"
    /\ events[4][1] = "ExamCreated" /\ events[4][2] = 1
    /\ exams[0].questionCount # exams[1].questionCount

(***************************************************************************)
(* C27: every successful ledger write emits exactly one event, of the kind *)
(* of the write (ExamCreated, AnswersSubmitted, TotalComputed) and with    *)
(* the identifiers of the record it changed; a failed write emits none.    *)
(***************************************************************************)
C27_OneEventPerWrite ==
    /\ [][ledgerVars' # ledgerVars =>
            /\ Len(events') = Len(events) + 1
            /\ SubSeq(events', 1, Len(events)) = events
            /\ LET ev == events'[Len(events')]
               IN  \/ /\ ev[1] = "ExamCreated"
                      /\ ev[2] = nextExamId /\ nextExamId' = nextExamId + 1
                      /\ ~exams[ev[2]].isActive /\ exams'[ev[2]].isActive
                      /\ ev = <<"ExamCreated", ev[2], exams'[ev[2]].creator,
                                exams'[ev[2]].title, exams'[ev[2]].questionCount,
                                exams'[ev[2]].startTime, exams'[ev[2]].endTime>>
                      /\ UNCHANGED <<submissions, examStudents, hasSubmitted>>
                   \/ /\ ev[1] = "AnswersSubmitted"
                      /\ ~submissions[ev[2]][ev[3]].exists /\ submissions'[ev[2]][ev[3]].exists
                      /\ ev[4] = now /\ submissions'[ev[2]][ev[3]].submittedAt = ev[4]
                      /\ \A e \in ExamIds, s \in Principals :
                            <<e, s>> # <<ev[2], ev[3]>> => submissions'[e][s] = submissions[e][s]
                      /\ UNCHANGED <<nextExamId, exams>>
                   \/ /\ ev[1] = "TotalComputed"
                      /\ submissions[ev[2]][ev[3]].exists
                      /\ \A e \in ExamIds, s \in Principals :
                            <<e, s>> # <<ev[2], ev[3]>> => submissions'[e][s] = submissions[e][s]
                      /\ UNCHANGED <<nextExamId, exams, examStudents, hasSubmitted>>]_vars
    /\ [][events' # events =>
            /\ ~ \E sender \in Creators, shape \in ExamShapes, owner \in Creators,
                    threshold \in ThresholdValues, startTime \in TimeInputs,
                    endTime \in TimeInputs :
                    /\ createExamRevert(sender, shape.questionCount,
                                        externalEuint32(owner, threshold),
                                        shape.questionScores, startTime, endTime) # ""
                    /\ createExam(sender, shape.title, shape.questionCount,
                                  externalEuint32(owner, threshold), shape.questionScores,
                                  startTime, endTime)
            /\ ~ \E s \in Students, e \in ExamIds, owner \in Students, values \in ScoreInputs :
                    /\ submitAnswersRevert(s, e, Encrypt(owner, values)) # ""
                    /\ submitAnswers(s, e, Encrypt(owner, values))
            /\ ~ \E sender \in Principals, e \in ExamIds, student \in Principals :
                    /\ computeTotalAndJudgeRevert(sender, e, student) # ""
                    /\ computeTotalAndJudge(sender, e, student)]_vars

\* four writes of the three kinds, the computation being for the second submitter
C27_Witness ==
    /\ Len(events) = 4
    /\ events[1][1] = "ExamCreated"
    /\ events[2][1] = "AnswersSubmitted" /\ events[3][1] = "AnswersSubmitted"
    /\ events[4] = <<"TotalComputed", events[3][2], events[3][3]>>

(***************************************************************************)
(* C28: the total is the left-to-right fold of the stored score handles    *)
(* from an encrypted zero, and the number of homomorphic additions of one  *)
(* computation is fixed by questionCount.                                  *)
(***************************************************************************)
RECURSIVE AddCount(_)
AddCount(h) ==
    IF h.op = "add" THEN 1 + AddCount(h.args[1]) + AddCount(h.args[2]) ELSE 0

RECURSIVE LeftFold(_, _)
LeftFold(h, scores) ==
    IF scores = <<>> THEN h = asEuint32(Zero32)
    ELSE /\ h.op = "add"
         /\ h.args[2] = scores[Len(scores)]
         /\ LeftFold(h.args[1], SubSeq(scores, 1, Len(scores) - 1))

\* as claimed: questionCount - 1 additions
C28_FoldAddsCountMinusOne ==
    \A e \in ExamIds, s \in Principals :
        Computed(e, s) =>
            /\ LeftFold(submissions[e][s].totalScore, submissions[e][s].scores)
            /\ AddCount(submissions[e][s].totalScore) = exams[e].questionCount - 1

\* as amended: questionCount additions, the first one adding the first score to the zero
C28_FoldAddsOnePerScore ==
    \A e \in ExamIds, s \in Principals :
        Computed(e, s) =>
            /\ LeftFold(submissions[e][s].totalScore, submissions[e][s].scores)
            /\ AddCount(submissions[e][s].totalScore) = exams[e].questionCount

\* a computed total over two different score handles
C28_Witness ==
    \E e \in ExamIds, s \in Principals :
        /\ Computed(e, s)
        /\ exams[e].questionCount = 2
        /\ submissions[e][s].scores[1] # submissions[e][s].scores[2]
        /\ AddCount(submissions[e][s].totalScore) = 2

(***************************************************************************)
(* C29: submitAnswers never rejects a submission for its score values: a   *)
(* score above the question's max score is accepted and stored, and the    *)
(* computed total can exceed the sum of the exam's max scores.             *)
(***************************************************************************)
C29_ScoreValuesNeverRejected ==
    \A s \in Students, e \in ExamIds, owner \in Students,
       v1 \in ScoreInputs, v2 \in ScoreInputs :
        Len(v1) = Len(v2) =>
            submitAnswersRevert(s, e, Encrypt(owner, v1))
                = submitAnswersRevert(s, e, Encrypt(owner, v2))

\* a one-question exam of max score 100 with a stored score and a computed total of
\* 2^32 - 1
C29_Witness ==
    \E e \in ExamIds, s \in Principals :
        /\ Computed(e, s)
        /\ exams[e].questionScores = <<MaxQuestionScore>>
        /\ Decrypt(submissions[e][s].scores[1]) = Max32
        /\ Decrypt(submissions[e][s].totalScore) = Max32
        /\ ~Ge32(U32(MaxQuestionScore), Decrypt(submissions[e][s].totalScore))

(***************************************************************************)
(* C30: every stored exam has 1 <= questionCount <= 100, exactly           *)
(* questionCount max scores each between 1 and 100, endTime > startTime,   *)
(* and a startTime no earlier than the time of its creation.               *)
(***************************************************************************)
C30_StoredExamsValid ==
    /\ [](\A e \in ExamIds :
            exams[e].isActive =>
                /\ 1 <= exams[e].questionCount /\ exams[e].questionCount <= 100
                /\ Len(exams[e].questionScores) = exams[e].questionCount
                /\ \A i \in 1..Len(exams[e].questionScores) :
                      1 <= exams[e].questionScores[i] /\ exams[e].questionScores[i] <= 100
                /\ exams[e].endTime > exams[e].startTime)
    /\ [][\A e \in ExamIds :
            (~exams[e].isActive /\ exams'[e].isActive) => exams'[e].startTime >= now]_vars

\* two stored exams of different sizes, one of them created at a later time and started
C30_Witness ==
    \E a \in ExamIds, b \in ExamIds :
        /\ exams[a].isActive /\ exams[a].questionCount = 1
        /\ exams[b].isActive /\ exams[b].questionCount = 2
        /\ exams[a].startTime < exams[b].startTime
        /\ now > exams[b].startTime

(***************************************************************************)
(* C23: a cache hit in loadOrSign performs no freshness check: when the    *)
(* storage holds a well-formed entry under the key of the call, the call   *)
(* returns that entry as it is, asks for no signature and writes nothing,  *)
(* also when startTimestamp + 365 days has elapsed.                        *)
(***************************************************************************)
C23_CacheHitNoFreshnessCheck ==
    [][\A c \in Calls :
        LET call == calls[c]
            key == FhevmDecryptionSignatureStorageKey(call.contractAddresses, call.signer,
                                                      call.keyPair.publicKey)
            stored == getItem(storage, key.key)
        IN  (/\ call.pc = "getAddress"
             /\ calls'[c].pc \notin {"getAddress", "threw"}
             /\ key.err = ""
             /\ stored # NoItem
             /\ checkIs(parse(stored)))
            => /\ calls'[c].pc = "done"
               /\ calls'[c].outcome = "cached"
               /\ calls'[c].result = parse(stored)
               /\ UNCHANGED <<storage, lastSetItem, keysGenerated>>]_vars

\* a call has returned a cached capability whose validity period had elapsed
C23_Witness ==
    \E c \in Calls :
        /\ calls[c].outcome = "cached"
        /\ calls[c].result.durationDays = DurationDays
        /\ now >= calls[c].result.startTimestamp + DurationDays * SecondsPerDay

(***************************************************************************)
(* C24: the cache key is a function of the signer principal, the set of    *)
(* contract addresses and the optional pre-supplied public key only: the   *)
(* order of the addresses and the current time do not matter, and neither  *)
(* does a generated key pair, so the key under which a call saves its      *)
(* capability is the key of the call's own arguments.                      *)
(***************************************************************************)
\* the key as a function of its three arguments: address order does not matter
C24_KeyOfArguments ==
    \A signer \in Signers, a \in ContractAddressInputs, b \in ContractAddressInputs,
       publicKey \in {Undefined, "pk0"} :
        SeqRange(a) = SeqRange(b) =>
            /\ FhevmDecryptionSignatureStorageKey(a, signer, publicKey).err = ""
            /\ FhevmDecryptionSignatureStorageKey(a, signer, publicKey).key
                 = FhevmDecryptionSignatureStorageKey(b, signer, publicKey).key

\* as claimed: the key a call has saved under does not depend on a generated key pair
C24_KeyIndependentOfGeneratedKeyPair ==
    /\ C24_KeyOfArguments
    /\ \A c \in Calls :
        calls[c].outcome = "signed" =>
            FhevmDecryptionSignatureStorageKey(calls[c].result.contractAddresses,
                                               calls[c].result.userAddress,
                                               calls[c].result.publicKey).key
              = FhevmDecryptionSignatureStorageKey(calls[c].contractAddresses, calls[c].signer,
                                                   calls[c].keyPair.publicKey).key

\* what holds: with a pre-supplied key pair the save key is the key of the arguments,
\* whatever the time of the call
C24_KeyIndependentWithKeyPair ==
    /\ C24_KeyOfArguments
    /\ \A c \in Calls :
        (calls[c].outcome = "signed" /\ calls[c].keyPair # NoKeyPair) =>
            /\ lastSetItem.call = c => lastSetItem.key =
                  FhevmDecryptionSignatureStorageKey(calls[c].contractAddresses, calls[c].signer,
                                                     calls[c].keyPair.publicKey).key
            /\ FhevmDecryptionSignatureStorageKey(calls[c].result.contractAddresses,
                                                  calls[c].result.userAddress,
                                                  calls[c].result.publicKey).key
                 = FhevmDecryptionSignatureStorageKey(calls[c].contractAddresses,
                                                      calls[c].signer,
                                                      calls[c].keyPair.publicKey).key

\* two calls of one scope with a supplied key pair have saved at different times
C24_WitnessWithKeyPair ==
    \E c \in Calls, d \in Calls :
        /\ c # d
        /\ calls[c].outcome = "signed" /\ calls[d].outcome = "signed"
        /\ calls[c].keyPair # NoKeyPair /\ SameScope(c, d)
        /\ calls[c].result.startTimestamp # calls[d].result.startTimestamp

C26_FailedSigningWritesNothing ==
    /\ [][\A c \in Calls :
            (calls[c].outcome = "" /\ calls'[c].outcome \in {"declined", "unresolved", "threw"})
                => /\ storage' = storage
                   /\ lastSetItem' = lastSetItem
                   /\ calls'[c].result = Null]_vars
    /\ [][storage' # storage =>
            \E c \in Calls :
                /\ calls[c].pc = "signTypedData" /\ calls'[c].outcome = "signed"
                /\ lastSetItem'.call = c
                /\ \A k \in DOMAIN storage : k # lastSetItem'.key => storage'[k] = storage[k]]_vars
    /\ [](\A k \in DOMAIN storage :
            /\ checkIs(parse(storage[k]))
            /\ parse(storage[k]).signature
                 = signTypedData(parse(storage[k]).userAddress, parse(storage[k]).eip712)
            /\ \E c \in Calls :
                  calls[c].outcome = "signed" /\ calls[c].result = parse(storage[k]))
    /\ [](\A c \in Calls :
            calls[c].result # Null =>
                /\ calls[c].outcome \in {"signed", "cached"}
                /\ calls[c].result.signature
                     = signTypedData(calls[c].result.userAddress, calls[c].result.eip712)
                /\ \E d \in Calls :
                      calls[d].outcome = "signed" /\ calls[d].result = calls[c].result)

\* after a call has saved its capability, a later call is declined by the signer and the
\* storage still holds exactly the first call's entry
C26_Witness ==
    \E c \in Calls, d \in Calls :
        /\ calls[c].outcome = "signed"
        /\ calls[d].outcome = "declined" /\ Successive(c, d)
        /\ calls[d].result = Null
        /\ lastSetItem.call = c
        /\ DOMAIN storage = {lastSetItem.key}
        /\ parse(storage[lastSetItem.key]) = calls[c].result

(***************************************************************************)
(* C31: granting a principal that is already in a handle's grant set is a  *)
(* no-op: a second grant of the same principal on the same handle leaves   *)
(* the grant set with the same members and the same size as the first, and *)
(* a recomputation, which grants the same handles to the same principals   *)
(* again, leaves every grant set as it was.                                *)
(***************************************************************************)
GrantSetIn(a, h) == {p \in Principals \cup {Ledger} : <<h, p>> \in a}

C31_GrantIdempotent ==
    /\ [](\A x \in acl :
            /\ allow(acl, x[1], x[2]) = acl
            /\ \A p \in Principals \cup {Ledger} :
                  /\ GrantSetIn(allow(allow(acl, x[1], p), x[1], p), x[1])
                       = GrantSetIn(allow(acl, x[1], p), x[1])
                  /\ Cardinality(GrantSetIn(allow(allow(acl, x[1], p), x[1], p), x[1]))
                       = Cardinality(GrantSetIn(allow(acl, x[1], p), x[1])))
    /\ [][ledgerVars' # ledgerVars =>
            \A e \in ExamIds, s \in Principals :
                (Computed(e, s) /\ events' = Append(events, <<"TotalComputed", e, s>>))
                    => acl' = acl]_vars

\* a total computed twice, in a submission whose score handles are granted more than once
C31_Witness ==
    \E e \in ExamIds, s \in Principals :
        /\ ComputeCount(e, s) = 2
        /\ GrantSet(submissions[e][s].totalScore) = {s, Ledger}
        /\ GrantSet(submissions[e][s].isPassed) = {s, Ledger}
        /\ \A i \in 1..Len(submissions[e][s].scores) :
              GrantSet(submissions[e][s].scores[i]) = {s, Ledger}

(***************************************************************************)
(* C32: computeTotalAndJudge has no time-window precondition: once a       *)
(* submission exists, a call by the student or by the exam's creator is    *)
(* accepted at any time, during the exam or after its end, and any number  *)
(* of times, and each call computes the total from the stored score        *)
(* handles.                                                                *)
(***************************************************************************)
C32_ComputeAnyTime ==
    /\ [](\A e \in ExamIds, s \in Principals :
            submissions[e][s].exists =>
                \A sender \in {s, exams[e].creator} :
                    computeTotalAndJudgeRevert(sender, e, s) = "")
    /\ [][ledgerVars' # ledgerVars =>
            \A e \in ExamIds, s \in Principals :
                events' = Append(events, <<"TotalComputed", e, s>>) =>
                    /\ submissions[e][s].exists
                    /\ submissions'[e][s].totalScore
                         = foldTotal(asEuint32(Zero32), submissions[e][s].scores)
                    /\ submissions'[e][s].isPassed
                         = ge(submissions'[e][s].totalScore, exams[e].passingScore)]_vars

\* an exam has ended, the total of one of its submissions has been computed, and a
\* further computation by the student or by the exam's creator is accepted
C32_Witness ==
    \E e \in ExamIds, s \in Principals :
        /\ now > exams[e].endTime
        /\ s # exams[e].creator
        /\ Computed(e, s)
        /\ computeTotalAndJudgeRevert(exams[e].creator, e, s) = ""
        /\ computeTotalAndJudgeRevert(s, e, s) = ""
        /\ Len(events) < MaxEvents

(***************************************************************************)
(* C34: from a successful submitAnswers until the first successful         *)
(* computeTotalAndJudge for the submission, the handles in its total and   *)
(* passed fields have an empty grant set, so a reveal of the total or of   *)
(* the passed handle requested by the student is denied.                   *)
(***************************************************************************)
C34_NoGrantsBeforeCompute ==
    \A e \in ExamIds, s \in Principals :
        (submissions[e][s].exists /\ ~Computed(e, s)) =>
            /\ GrantSet(submissions[e][s].totalScore) = {}
            /\ GrantSet(submissions[e][s].isPassed) = {}
            /\ \A cap \in CapabilityInputs, ca \in {Ledger, OtherContract} :
                  /\ ~userDecryptOk(cap, [handle |-> submissions[e][s].totalScore,
                                          contractAddress |-> ca])
                  /\ ~userDecryptOk(cap, [handle |-> submissions[e][s].isPassed,
                                          contractAddress |-> ca])
                  /\ userDecrypt(cap, handleDecryptRequest(e, s, ca)).err = "RevealDenied"

\* a student with an unexpired capability for the ledger, whose score handles would be
\* revealed, is denied the request of the results page before the computation
C34_Witness ==
    \E e \in ExamIds, s \in Principals, cap \in CapabilityInputs :
        /\ submissions[e][s].exists /\ ~Computed(e, s)
        /\ cap.userAddress = s /\ cap.contractAddresses = <<Ledger>> /\ Unexpired(cap)
        /\ \A i \in 1..Len(submissions[e][s].scores) :
              userDecryptOk(cap, [handle |-> submissions[e][s].scores[i],
                                  contractAddress |-> Ledger])
        /\ userDecrypt(cap, handleDecryptRequest(e, s, Ledger)).err = "RevealDenied"
        /\ \E t \in Principals : Computed(e, t)

(***************************************************************************)
(* C35: the total is computed in unsigned 32-bit arithmetic: the decrypted *)
(* total is the sum of the cleartext scores modulo 2^32 and the passed     *)
(* flag compares that wrapped value with the threshold, so scores that sum *)
(* to 2^32 or more give a total smaller than the true sum.                 *)
(***************************************************************************)
C35_TotalWrapsAt32Bits ==
    \A e \in ExamIds, s \in Principals :
        Computed(e, s) =>
            LET sum == SumWide(ClearScores(e, s))
                total == Decrypt(submissions[e][s].totalScore)
                threshold == Decrypt(exams[e].passingScore)
            IN  /\ total[1] = sum[2] /\ total[2] = sum[3]
                /\ DecryptBool(submissions[e][s].isPassed) <=> Ge32(total, threshold)
                /\ sum[1] = 0 => sum = <<0, total[1], total[2]>>
                /\ sum[1] > 0 => /\ WideGe(sum, total)
                                 /\ sum # <<0, total[1], total[2]>>
                                 /\ \E i \in 1..Len(ClearScores(e, s)) :
                                       ~Ge32(total, ClearScores(e, s)[i])

\* scores 2^32 - 1 and 30: the true sum 2^32 + 29 reaches the threshold 60, the total
\* is 29 and the flag is false
C35_Witness ==
    \E e \in ExamIds, s \in Principals :
        /\ Computed(e, s)
        /\ ClearScores(e, s) = <<Max32, U32(30)>>
        /\ SumWide(ClearScores(e, s)) = <<1, 0, 29>>
        /\ Decrypt(submissions[e][s].totalScore) = U32(29)
        /\ WideGe(SumWide(ClearScores(e, s)), Decrypt(exams[e].passingScore))
        /\ ~Ge32(Decrypt(submissions[e][s].totalScore), Decrypt(exams[e].passingScore))
        /\ ~DecryptBool(submissions[e][s].isPassed)

(***************************************************************************)
(* C36: for every exam the roster holds exactly the principals that have a *)
(* submission for it, each once and in the order in which the submissions  *)
(* were accepted, and hasSubmitted[exam][student] is true exactly when     *)
(* submissions[exam][student].exists is.                                   *)
(***************************************************************************)
\* the students of the AnswersSubmitted events of an exam, in the order of the log
RECURSIVE AcceptedOrder(_, _)
AcceptedOrder(evs, e) ==
    IF evs = <<>> THEN <<>>
    ELSE IF Head(evs)[1] = "AnswersSubmitted" /\ Head(evs)[2] = e
         THEN <<Head(evs)[3]>> \o AcceptedOrder(Tail(evs), e)
         ELSE AcceptedOrder(Tail(evs), e)

C36_RosterMatchesSubmissions ==
    \A e \in ExamIds :
        /\ SeqRange(getExamStudents(e)) = {s \in Principals : submissions[e][s].exists}
        /\ Len(getExamStudents(e)) = Cardinality({s \in Principals : submissions[e][s].exists})
        /\ \A i \in 1..Len(getExamStudents(e)), j \in 1..Len(getExamStudents(e)) :
              i # j => getExamStudents(e)[i] # getExamStudents(e)[j]
        /\ getExamStudents(e) = AcceptedOrder(events, e)
        /\ \A s \in Principals : hasSubmitted[e][s] <=> submissions[e][s].exists

\* two students in the roster of one exam, the one who submitted later being second,
\* and a principal who has not submitted
C36_Witness ==
    \E e \in ExamIds, s \in Principals, t \in Principals, u \in Principals :
        /\ getExamStudents(e) = <<s, t>>
        /\ submissions[e][s].submittedAt < submissions[e][t].submittedAt
        /\ ~hasSubmitted[e][u] /\ ~submissions[e][u].exists

(***************************************************************************)
(* C37: every existing submission belongs to an existing exam (its exam id *)
(* is smaller than nextExamId) and its submission timestamp lies within    *)
(* that exam's window: startTime <= submittedAt <= endTime.                *)
(***************************************************************************)
C37_SubmissionWithinWindow ==
    \A e \in ExamIds, s \in Principals :
        submissions[e][s].exists =>
            /\ e < nextExamId
            /\ exams[e].isActive
            /\ exams[e].startTime <= submissions[e][s].submittedAt
            /\ submissions[e][s].submittedAt <= exams[e].endTime

\* after the end of an exam: one submission made at its start instant and one made at
\* its end instant
C37_Witness ==
    \E e \in ExamIds, s \in Principals, t \in Principals :
        /\ submissions[e][s].exists /\ submissions[e][t].exists
        /\ submissions[e][s].submittedAt = exams[e].startTime
        /\ submissions[e][t].submittedAt = exams[e].endTime
        /\ now > exams[e].endTime

(***************************************************************************)
(* C38: every capability returned by loadOrSign for signer P and contract  *)
(* address set S, minted or read from the storage, has userAddress P and   *)
(* contractAddresses equal to S as a set, in sorted order; a capability    *)
(* minted for another principal or another address set is never returned.  *)
(***************************************************************************)
C38_ReturnedCapabilityMatchesRequest ==
    \A c \in Calls :
        calls[c].result # Null =>
            /\ calls[c].outcome \in {"signed", "cached"}
            /\ calls[c].result.userAddress = calls[c].signer
            /\ SeqRange(calls[c].result.contractAddresses)
                 = SeqRange(calls[c].contractAddresses)
            /\ calls[c].result.contractAddresses = sort(calls[c].result.contractAddresses)
            /\ calls[c].result.eip712.contractAddresses = calls[c].result.contractAddresses
            /\ calls[c].result.signature
                 = signTypedData(calls[c].signer, calls[c].result.eip712)

\* a call with a supplied key pair for two contract addresses has been answered from the
\* storage with the capability that another call minted
C38_Witness ==
    \E c \in Calls, d \in Calls :
        /\ calls[d].outcome = "signed"
        /\ calls[c].outcome = "cached"
        /\ calls[c].result = calls[d].result
        /\ calls[c].result.contractAddresses = <<Ledger, OtherContract>>
        /\ calls[c].keyPair # NoKeyPair

(***************************************************************************)
(* C39: a stored item that is not valid JSON or that lacks a required      *)
(* field of a capability is a cache miss, never an error: the load returns *)
(* null, and loadOrSign goes on to one signing interaction and saves a     *)
(* well-formed capability.                                                 *)
(***************************************************************************)
\* the item under the key of the call's own arguments is there and is no capability
MalformedEntry(c) ==
    LET key == FhevmDecryptionSignatureStorageKey(calls[c].contractAddresses, calls[c].signer,
                                                  calls[c].keyPair.publicKey)
    IN  /\ key.err = ""
        /\ getItem(storage, key.key) \in MalformedItems

C39_MalformedEntryIsMiss ==
    /\ [](\A c \in Calls : MalformedEntry(c) => CacheEntry(c) = Null)
    /\ [][\A c \in Calls :
            (MalformedEntry(c) /\ loadOrSignLoad(c, TRUE)) =>
                /\ calls'[c].pc = "newGetAddress"
                /\ calls'[c].outcome = ""
                /\ storage' = storage]_vars
    /\ [][\A c \in Calls :
            newSignTypedData(c, TRUE) =>
                /\ calls'[c].outcome = "signed"
                /\ checkIs(calls'[c].result)
                /\ loadFromGenericStringStorage(storage', calls'[c].result.contractAddresses,
                                                calls'[c].result.userAddress,
                                                calls'[c].result.publicKey) = calls'[c].result
                /\ calls[c].keyPair # NoKeyPair =>
                      loadFromGenericStringStorage(storage', calls[c].contractAddresses,
                                                   calls[c].signer, calls[c].keyPair.publicKey)
                        = calls'[c].result]_vars

\* a call with a key pair, whose key held the malformed item, has signed and saved: the
\* only item of the storage is now its capability
C39_Witness ==
    \E c \in Calls :
        /\ calls[c].outcome = "signed" /\ calls[c].keyPair # NoKeyPair
        /\ calls[c].signer = "alice" /\ calls[c].contractAddresses = <<Ledger>>
        /\ DOMAIN storage = {lastSetItem.key}
        /\ lastSetItem.key \in MalformedKeys
        /\ CacheEntry(c) = calls[c].result

(***************************************************************************)
(* C33: once the cached capability of a scope has expired, every later     *)
(* loadOrSign for the scope returns that same expired capability without   *)
(* signing again: no capability of the scope is minted at or after the     *)
(* expiry of one returned earlier, so the client does not hold an          *)
(* unexpired capability for the scope again.                               *)
(***************************************************************************)
\* as claimed: for every scope, with or without a key pair
C33_ExpiredStaysExpired ==
    \A c \in Calls, d \in Calls :
        (/\ SameScope(c, d) /\ Successive(c, d)
         /\ calls[c].result # Null /\ calls[d].result # Null) =>
            /\ calls[d].result.startTimestamp
                 < calls[c].result.startTimestamp + DurationDays * SecondsPerDay
            /\ ~Unexpired(calls[c].result) => ~Unexpired(calls[d].result)

\* what holds: with a supplied key pair the later call returns the earlier capability,
\* expired or not
C33_ExpiredStaysExpiredWithKeyPair ==
    \A c \in Calls, d \in Calls :
        (/\ SameScope(c, d) /\ Successive(c, d) /\ calls[c].keyPair # NoKeyPair
         /\ calls[c].result # Null /\ calls[d].result # Null) =>
            /\ calls[d].outcome = "cached"
            /\ calls[d].result = calls[c].result
            /\ ~Unexpired(calls[c].result) => ~Unexpired(calls[d].result)

\* with a key pair, a call made after the expiry has returned the expired capability
C33_WitnessWithKeyPair ==
    \E c \in Calls, d \in Calls :
        /\ SameScope(c, d) /\ Successive(c, d) /\ calls[c].keyPair # NoKeyPair
        /\ calls[c].outcome = "signed" /\ calls[d].outcome = "cached"
        /\ calls[d].result = calls[c].result
        /\ ~Unexpired(calls[d].result)

(***************************************************************************)
(* C40: the exam id returned by the client-side createExam, under which    *)
(* the page saves the exam's questions, is the id that the ledger assigned *)
(* to the exam created by that very call, also when another principal's    *)
(* createExam is applied between the call's transaction and its read of    *)
(* getNextExamId.                                                          *)
(***************************************************************************)
\* as claimed
C40_ReturnedIdIsAssignedId ==
    page.pc = "done" =>
        /\ page.examId = page.receipt[2]
        /\ exams[page.examId].creator = PageAccount
        /\ exams[page.examId].title = page.shape.title
        /\ loadExamQuestions(localStorage, ToString(page.receipt[2])) = page.shape.title

\* what holds: the returned id is the assigned id plus the number of exams created
\* between the transaction and the read, and the questions are saved under the returned id
C40_ReturnedIdIsLatestId ==
    page.pc = "done" =>
        /\ page.examId >= page.receipt[2]
        /\ page.examId < nextExamId
        /\ exams[page.receipt[2]].creator = PageAccount
        /\ exams[page.receipt[2]].title = page.shape.title
        /\ (\A e \in ExamIds : (e > page.receipt[2] /\ e <= page.examId) =>
                exams[e].isActive /\ exams[e].creator # PageAccount)
        /\ loadExamQuestions(localStorage, ToString(page.examId)) = page.shape.title
        /\ DOMAIN localStorage = {STORAGE_PREFIX \o ToString(page.examId)}

\* the page's exam is the only one created since its transaction and the returned id is
\* its id
C40_WitnessNoInterleaving ==
    /\ page.pc = "done"
    /\ page.receipt[2] = 1
    /\ page.examId = 1
    /\ exams[0].creator # PageAccount
    /\ loadExamQuestions(localStorage, "1") = page.shape.title

====
